---- MODULE Spec2Model ----
(***************************************************************************)
(* Incremental delivery: IncrementalGraph (the delivery graph) and         *)
(* IncrementalPublisher (the outward sequence of payloads).                *)
(*                                                                         *)
(* The execution collaborator is the environment: it creates pending       *)
(* execution groups and stream records, resolves their boxed results, and  *)
(* the consumer pulls payloads with next().  Every synchronous run of the  *)
(* JavaScript code (one call, or one promise continuation) is one action.  *)
(***************************************************************************)
EXTENDS Integers, Sequences, FiniteSets, TLC

\* ------------------------------------------------------------------ bounds
MaxGroups == 3        \* pending execution groups the executor creates
MaxStreams == 1       \* stream records the executor creates
MaxItems == 1         \* items of a stream before its terminating sentinel
MaxPulls == 3         \* calls of next() over the whole run
MaxOutstanding == 2   \* calls of next() that are unsettled at the same time
MaxInitial == 2       \* execution groups among the records given to buildResponse
MaxRecords == 3       \* execution groups and streams the executor creates, together
MaxOwners == 2        \* deferred fragments one execution group belongs to
MaxCloses == 2        \* calls of return() and throw() over the whole run
MaxCalls == 3         \* calls of next(), return() and throw() on a mapped iterator
MaxSourceItems == 1   \* values the source of a mapped iterator produces

\* ------------------------------------------------------------ the universe
\* Deferred fragment records the executor hands in.  A and C are top-level
\* fragments at the root path; B and D are nested in A, both one level down
\* at the same path.
FragNames == <<"A", "B", "C", "D">>
Frags == {FragNames[i] : i \in 1..Len(FragNames)}
NoFrag == "none"
GroupNames == <<"G1", "G2", "G3", "G4", "G5">>
StreamNames == <<"S1", "S2", "S3">>
Min(a, b) == IF a < b THEN a ELSE b
\* the names a run may give to the records it creates (limits says how many)
Groups == {GroupNames[i] : i \in 1..Len(GroupNames)}
Streams == {StreamNames[i] : i \in 1..Len(StreamNames)}
Pulls == 1..MaxPulls

\* DeferredFragmentRecord.parent
Parent(f) == IF f \in {"B", "D"} THEN "A" ELSE NoFrag
\* DeferredFragmentRecord.path, as pathToArray gives it
FragPath(f) == IF f \in {"B", "D"} THEN <<"a">> ELSE <<>>
\* StreamRecord.path
StreamPath(s) == <<"list">>

RECURSIVE Ancestors(_)
Ancestors(f) == IF Parent(f) = NoFrag THEN {} ELSE {Parent(f)} \cup Ancestors(Parent(f))

Range(q) == {q[i] : i \in 1..Len(q)}
\* Set.add on an insertion-ordered Set
SetAdd(q, x) == IF x \in Range(q) THEN q ELSE Append(q, x)
\* Set.delete
SetDelete(q, x) == SelectSeq(q, LAMBDA y : y # x)
RECURSIVE SetAddAll(_, _)
SetAddAll(q, xs) == IF xs = <<>> THEN q ELSE SetAddAll(SetAdd(q, Head(xs)), Tail(xs))
\* Array.prototype.slice(n)
Slice(q, n) == IF n >= Len(q) THEN <<>> ELSE SubSeq(q, n + 1, Len(q))
IsPrefix(p, q) == Len(p) <= Len(q) /\ SubSeq(q, 1, Len(p)) = p

\* String(n) for a non-negative integer: its decimal digits
Digits == <<"0", "1", "2", "3", "4", "5", "6", "7", "8", "9">>
RECURSIVE String(_)
String(n) == IF n < 10 THEN Digits[n + 1] ELSE String(n \div 10) \o Digits[(n % 10) + 1]
NoId == "undefined"
\* the number a decimal id string denotes (ids never exceed the nodes promoted)
MaxId == 4 * (MaxGroups + MaxStreams + MaxPulls)
IdNum(id) == CHOOSE n \in 0..MaxId : String(n) = id

NoResult == [kind |-> "none", ref |-> "none", items |-> <<>>, nested |-> <<>>]
\* CompletedExecutionGroup, resolved value of PendingExecutionGroup.result
GroupResult(g) == [kind |-> "group", ref |-> g, items |-> <<>>, nested |-> <<>>]
\* StreamItemsResult with result.items
ItemsResult(s, items, nested) == [kind |-> "items", ref |-> s, items |-> items, nested |-> nested]
\* StreamItemsResult of the sentinel: { streamRecord } or { streamRecord, errors }
EndResult(s, failed) ==
  [kind |-> IF failed THEN "streamError" ELSE "streamEnd", ref |-> s, items |-> <<>>, nested |-> <<>>]

VARIABLES
  limits,                         \* what the environment of this run is bounded by
  phase,                          \* "new" until buildResponse has run
  sendIncrementalErrorsAsNull,    \* IncrementalPublisherContext
  sendPathAndLabelOnIncremental,  \* IncrementalPublisherContext
  rootNodes,                      \* IncrementalGraph._rootNodes
  completedQueue,                 \* IncrementalGraph._completedQueue
  nextQueue,                      \* IncrementalGraph._nextQueue (the pull behind each resolver)
  resumes,                        \* the next() calls whose await has been resolved, oldest first
  fragments,                      \* the DeferredFragmentRecord objects
  groups,                         \* the PendingExecutionGroup objects and their boxed results
  streams,                        \* the StreamRecord objects and their running item loops
  nextId,                         \* IncrementalPublisher._nextId
  incrementalPublisherState,      \* _subscribe's incrementalPublisherState
  pulls,                          \* every next() call: where its promise stands
  cancellableStreams,             \* IncrementalPublisherContext.cancellableStreams
  initialResult,                  \* what buildResponse returned (pending entries)
  out,                            \* the payloads yielded so far, in the order they were yielded
  flushLog,                       \* every successful completeDeferredFragment, in order
  failLog,                        \* every failed execution group handled, in order
  promoteLog,                     \* every call of _promoteNonEmptyToRoot, in order
  contexts,                       \* the `context` of every next() call suspended in its loop
  traffic,                        \* what _enqueue was given and where it went (counts)
  mapped,                         \* an iterator mapAsyncIterator returned, and its source
  signal,                         \* IncrementalPublisherContext.signal: "none", "live" or "aborted"
  finishes,                       \* every call of _finish, in order: who made it, where it stands
  pullInfo                        \* every next() call: what held when it was made

vars == <<limits, phase, sendIncrementalErrorsAsNull, sendPathAndLabelOnIncremental, rootNodes,
          completedQueue, nextQueue, resumes, fragments, groups, streams, nextId,
          incrementalPublisherState, pulls, cancellableStreams, initialResult, out, flushLog, failLog,
          promoteLog, contexts, traffic, mapped, signal, finishes, pullInfo>>

\* the variables of the publisher and its graph
publisherVars ==
  <<limits, phase, sendIncrementalErrorsAsNull, sendPathAndLabelOnIncremental, rootNodes,
    completedQueue, nextQueue, resumes, fragments, groups, streams, nextId,
    incrementalPublisherState, pulls, cancellableStreams, initialResult, out, flushLog, failLog,
    promoteLog, contexts, traffic, signal, finishes, pullInfo>>

\* IncrementalPublisherState
Started == "Started"
Completed == "Completed"
Finished == "Finished"

\* SubsequentIncrementalExecutionResultContext
EmptyContext == [pending |-> <<>>, incremental |-> <<>>, completed |-> <<>>]

\* The heap a synchronous run works on: the variables above, plus the run's
\* locals: the payload context being built, the initialResultChildren set,
\* and whether an invariant() has thrown.
Cur ==
  [rootNodes |-> rootNodes, completedQueue |-> completedQueue, nextQueue |-> nextQueue,
   resumes |-> resumes,
   fragments |-> fragments, groups |-> groups, streams |-> streams, nextId |-> nextId,
   pulls |-> pulls, flushLog |-> flushLog, failLog |-> failLog, promoteLog |-> promoteLog,
   contexts |-> contexts, traffic |-> traffic,
   cancellableStreams |-> cancellableStreams,
   sendIncrementalErrorsAsNull |-> sendIncrementalErrorsAsNull,
   sendPathAndLabelOnIncremental |-> sendPathAndLabelOnIncremental,
   context |-> EmptyContext, initialResultChildren |-> <<>>, thrown |-> FALSE]

Commit(s) ==
  /\ rootNodes' = s.rootNodes
  /\ completedQueue' = s.completedQueue
  /\ nextQueue' = s.nextQueue
  /\ resumes' = s.resumes
  /\ fragments' = s.fragments
  /\ groups' = s.groups
  /\ streams' = s.streams
  /\ nextId' = s.nextId
  /\ pulls' = s.pulls
  /\ flushLog' = s.flushLog
  /\ failLog' = s.failLog
  /\ promoteLog' = s.promoteLog
  /\ contexts' = s.contexts
  /\ traffic' = s.traffic
  /\ mapped' = mapped
  /\ cancellableStreams' = s.cancellableStreams

\* ------------------------------------------------------- IncrementalGraph

\* The results that went through _enqueue, counted: enqueued in all, handed
\* to a resolver that was already resolved (swallowed), of these the ones
\* handed over while the root set was not empty and before any abort()
\* (swallowedLive), and handled by the publisher; aborted: abort() was called
NoTraffic ==
  [enqueued |-> 0, swallowed |-> 0, swallowedLive |-> 0, handled |-> 0, aborted |-> FALSE]

\* an _enqueue that hands the result to the oldest waiting call and buffers
\* it as well
Enqueue_both(s, completed) ==
  IF s.nextQueue # <<>> /\ s.pulls[Head(s.nextQueue)].st = "waiting"
  THEN [s EXCEPT !.nextQueue = Tail(@),
                 !.pulls[Head(s.nextQueue)] = [st |-> "batch", first |-> completed],
                 !.resumes = Append(@, Head(s.nextQueue)),
                 !.completedQueue = Append(@, completed),
                 !.traffic.enqueued = @ + 1]
  ELSE [s EXCEPT !.completedQueue = Append(@, completed), !.traffic.enqueued = @ + 1]

\* _enqueue: hand the result to the oldest resolver of _nextQueue, or buffer
\* it.  A resolver that abort() or an emptied root set has already resolved
\* is still in _nextQueue: calling it again does nothing.  The next() calls
\* whose promise is resolved go on in the order of the resolutions.
Enqueue(s, completed) ==
  IF s.nextQueue # <<>>
  THEN LET next == Head(s.nextQueue) IN
       IF s.pulls[next].st = "waiting"
       THEN [s EXCEPT !.nextQueue = Tail(@),
                      !.pulls[next] = [st |-> "batch", first |-> completed],
                      !.resumes = Append(@, next),
                      !.traffic.enqueued = @ + 1]
       ELSE [s EXCEPT !.nextQueue = Tail(@),
                      !.traffic.enqueued = @ + 1,
                      !.traffic.swallowed = @ + 1,
                      !.traffic.swallowedLive =
                         IF s.rootNodes # {} /\ ~s.traffic.aborted THEN @ + 1 ELSE @]
  ELSE [s EXCEPT !.completedQueue = Append(@, completed), !.traffic.enqueued = @ + 1]

\* the loop `for (const resolve of this._nextQueue) resolve(undefined)`
ResolveAllUndefined(s) ==
  [s EXCEPT !.pulls = [p \in Pulls |->
                         IF p \in Range(s.nextQueue) /\ @[p].st = "waiting"
                         THEN [st |-> "released", first |-> NoResult]
                         ELSE @[p]],
            !.resumes = @ \o SelectSeq(s.nextQueue, LAMBDA p : s.pulls[p].st = "waiting")]

\* abort
Abort(s) == ResolveAllUndefined([s EXCEPT !.traffic.aborted = TRUE])

\* a hasNext that is true whatever the root set holds
HasNext_always(s) == TRUE
\* hasNext
HasNext(s) == Cardinality(s.rootNodes) > 0

\* _hasPendingFragment
HasPendingFragment(s, g) ==
  \E f \in Range(s.groups[g].deferredFragmentRecords) : f \in s.rootNodes

\* _onExecutionGroup: a result that is still a promise gets a then-callback
\* that enqueues it; a result that is already there is enqueued at once.
OnExecutionGroup(s, g) ==
  LET s1 == [s EXCEPT !.groups[g].awaited = @ + 1] IN
  IF s1.groups[g].box = "pending"
  THEN [s1 EXCEPT !.groups[g].thens = @ + 1]
  ELSE Enqueue(s1, GroupResult(g))

\* `this._enqueue(...)` in _onStreamItems
EnqueueStreamResult(s, str, result) ==
  Enqueue([s EXCEPT !.streams[str].enqueued = Append(@, result)], result)

\* _onStreamItems, from `while (shift())` on, with the loop's local items and
\* incrementalDataRecords: runs until the queue is empty, the sentinel is
\* met, or an item that is still a promise has to be awaited.
RECURSIVE StreamLoop(_, _, _, _)
\* _onStreamItems from `if (result.item === undefined)` on, result in hand
StreamItem(s, str, rec, items, nested) ==
  IF rec.kind # "item"
  THEN LET s1 == IF Len(items) > 0
                 THEN EnqueueStreamResult(s, str, ItemsResult(str, items, nested))
                 ELSE s
       IN EnqueueStreamResult(s1, str, EndResult(str, rec.kind = "error"))
  ELSE StreamLoop(s, str, Append(items, rec.item), nested \o rec.nested)

StreamLoop(s, str, items, nested) ==
  LET queue == s.streams[str].streamItemQueue IN
  IF queue = <<>> THEN s
  ELSE LET rec == Head(queue)
           s1 == [s EXCEPT !.streams[str].streamItemQueue = Tail(queue)]
       IN IF rec.async
          THEN LET s2 == IF Len(items) > 0
                         THEN EnqueueStreamResult(s1, str, ItemsResult(str, items, nested))
                         ELSE s1
               IN [s2 EXCEPT !.streams[str].loops = Append(@, rec)]
          ELSE StreamItem(s1, str, rec, items, nested)

\* _onStreamItems
OnStreamItems(s, str) ==
  StreamLoop([s EXCEPT !.streams[str].started = @ + 1], str, <<>>, <<>>)

\* an _addDeferredFragment that treats every fragment as a top-level one
AddDeferredFragment_flat(s, f, hasChildren) ==
  IF s.thrown \/ f \in s.rootNodes THEN s
  ELSE IF hasChildren
  THEN [s EXCEPT !.initialResultChildren = SetAdd(@, f)]
  ELSE [s EXCEPT !.thrown = TRUE]

\* _addDeferredFragment; hasChildren says whether the deliveryGroups argument
\* (initialResultChildren) is defined.  refused notes on the fragment that
\* `invariant(deliveryGroups !== undefined)` has failed for it.
RECURSIVE AddDeferredFragment(_, _, _)
AddDeferredFragment(s, f, hasChildren) ==
  IF s.thrown \/ f \in s.rootNodes THEN s
  ELSE IF Parent(f) = NoFrag
  THEN IF hasChildren
       THEN [s EXCEPT !.initialResultChildren = SetAdd(@, f)]
       ELSE [s EXCEPT !.thrown = TRUE, !.fragments[f].refused = TRUE]
  ELSE AddDeferredFragment(
         [s EXCEPT !.fragments[Parent(f)].children = SetAdd(@, f)], Parent(f), hasChildren)

\* the loop over incrementalDataRecord.deferredFragmentRecords in
\* _addIncrementalDataRecords
RECURSIVE AddToFragments(_, _, _, _)
AddToFragments(s, g, frs, hasChildren) ==
  IF frs = <<>> \/ s.thrown THEN s
  ELSE LET s1 == AddDeferredFragment(s, Head(frs), hasChildren)
           s2 == IF s1.thrown THEN s1
                 ELSE [s1 EXCEPT !.fragments[Head(frs)].pendingExecutionGroups = SetAdd(@, g),
                                 !.groups[g].registered = @ \cup {Head(frs)}]
       IN AddToFragments(s2, g, Tail(frs), hasChildren)

\* the loop over parents in _addIncrementalDataRecords
RECURSIVE AddToParents(_, _, _, _)
AddToParents(s, rec, parents, hasChildren) ==
  IF parents = <<>> \/ s.thrown THEN s
  ELSE LET s1 == AddDeferredFragment(s, Head(parents), hasChildren)
           s2 == IF s1.thrown THEN s1
                 ELSE [s1 EXCEPT !.fragments[Head(parents)].children = SetAdd(@, rec)]
       IN AddToParents(s2, rec, Tail(parents), hasChildren)

\* _addIncrementalDataRecords; hasParents: parents !== undefined
RECURSIVE AddIncrementalDataRecords(_, _, _, _, _)
AddIncrementalDataRecords(s, records, hasParents, parents, hasChildren) ==
  IF records = <<>> \/ s.thrown THEN s
  ELSE LET rec == Head(records)
           s1 == IF rec \in Groups
                 THEN LET a == AddToFragments(s, rec, s.groups[rec].deferredFragmentRecords,
                                              hasChildren)
                      IN IF ~a.thrown /\ HasPendingFragment(a, rec)
                         THEN OnExecutionGroup(a, rec)
                         ELSE a
                 ELSE IF ~hasParents
                 THEN IF hasChildren
                      THEN [s EXCEPT !.initialResultChildren = SetAdd(@, rec)]
                      ELSE [s EXCEPT !.thrown = TRUE]
                 ELSE AddToParents(s, rec, parents, hasChildren)
       IN AddIncrementalDataRecords(s1, Tail(records), hasParents, parents, hasChildren)
\* a promotion that marks the fragment pending and calls none of its callbacks
SetAsPending_silent(s, f) == [s EXCEPT !.fragments[f].pending = TRUE]
\* DeferredFragmentRecord.setAsPending
SetAsPending(s, f) ==
  [s EXCEPT !.fragments[f].pending = TRUE, !.fragments[f].fnsCalled = @ + 1]

\* the loop over deliveryGroup.pendingExecutionGroups in _promoteNonEmptyToRoot
RECURSIVE StartPending(_, _)
StartPending(s, gs) ==
  IF gs = <<>> THEN s
  ELSE StartPending(IF ~HasPendingFragment(s, Head(gs))
                    THEN OnExecutionGroup(s, Head(gs))
                    ELSE s,
                    Tail(gs))

\* The Set _promoteNonEmptyToRoot iterates and grows: initialResultChildren
\* (owner NoFrag), or the children Set of the fragment being flushed.
Candidates(s, owner) ==
  IF owner = NoFrag THEN s.initialResultChildren ELSE s.fragments[owner].children
AddCandidates(s, owner, xs) ==
  IF owner = NoFrag
  THEN [s EXCEPT !.initialResultChildren = SetAddAll(@, xs)]
  ELSE [s EXCEPT !.fragments[owner].children = SetAddAll(@, xs)]

\* a test that takes every fragment to have pending execution groups
IsNonEmpty_always(s, f) == TRUE

\* `deliveryGroup.pendingExecutionGroups.size > 0`
IsNonEmpty(s, f) == Len(s.fragments[f].pendingExecutionGroups) > 0

\* _promoteNonEmptyToRoot, from the i-th element of the iterated Set on
RECURSIVE PromoteFrom(_, _, _, _)
PromoteFrom(s, owner, i, newPending) ==
  IF i > Len(Candidates(s, owner))
  THEN [s |-> [s EXCEPT !.promoteLog[Len(s.promoteLog)] =
                  [@ EXCEPT !.considered = Candidates(s, owner),
                            !.newPending = newPending,
                            !.rootAfter = s.rootNodes,
                            !.children = [f \in Frags |-> s.fragments[f].children]]],
        newPending |-> newPending]
  ELSE LET deliveryGroup == Candidates(s, owner)[i] IN
       IF deliveryGroup \in Frags
       THEN IF IsNonEmpty(s, deliveryGroup)
            THEN LET s1 == SetAsPending(s, deliveryGroup)
                     s2 == StartPending(s1, s1.fragments[deliveryGroup].pendingExecutionGroups)
                     s3 == [s2 EXCEPT !.rootNodes = @ \cup {deliveryGroup}]
                 IN PromoteFrom(s3, owner, i + 1, Append(newPending, deliveryGroup))
            ELSE PromoteFrom(AddCandidates(s, owner, s.fragments[deliveryGroup].children),
                             owner, i + 1, newPending)
       ELSE LET s1 == [s EXCEPT !.rootNodes = @ \cup {deliveryGroup}]
            IN PromoteFrom(OnStreamItems(s1, deliveryGroup), owner, i + 1,
                           Append(newPending, deliveryGroup))

\* _promoteNonEmptyToRoot; promoteLog keeps what the call found and what it
\* returned: the Set it was given and the Set as it left it, the root set
\* before and after, and every fragment's pending groups and children (the
\* entry is opened here and closed when the loop ends)
PromoteNonEmptyToRoot(s, owner) ==
  PromoteFrom([s EXCEPT !.promoteLog = Append(@,
                 [owner |-> owner,
                  given |-> Candidates(s, owner),
                  considered |-> <<>>,
                  newPending |-> <<>>,
                  rootBefore |-> s.rootNodes,
                  rootAfter |-> {},
                  pendingExecutionGroups |->
                     [f \in Frags |-> s.fragments[f].pendingExecutionGroups],
                  children |-> [f \in Frags |-> <<>>]])],
              owner, 1, <<>>)

\* getNewPending
GetNewPending(s, records) ==
  LET s1 == AddIncrementalDataRecords([s EXCEPT !.initialResultChildren = <<>>],
                                      records, FALSE, <<>>, TRUE)
  IN IF s1.thrown THEN [s |-> s1, newPending |-> <<>>]
     ELSE PromoteNonEmptyToRoot(s1, NoFrag)

\* the first loop of addCompletedSuccessfulExecutionGroup
RECURSIVE MoveToSuccessful(_, _, _)
MoveToSuccessful(s, g, frs) ==
  IF frs = <<>> THEN s
  ELSE MoveToSuccessful(
         [s EXCEPT !.fragments[Head(frs)].pendingExecutionGroups = SetDelete(@, g),
                   !.fragments[Head(frs)].successfulExecutionGroups = SetAdd(@, g)],
         g, Tail(frs))

\* addCompletedSuccessfulExecutionGroup (incrementalDataRecords is undefined
\* or a list; an empty list registers nothing either way)
AddCompletedSuccessfulExecutionGroup(s, g) ==
  LET frs == s.groups[g].deferredFragmentRecords
      s1 == MoveToSuccessful(s, g, frs)
  IN AddIncrementalDataRecords(s1, s.groups[g].nested, TRUE, frs, FALSE)

\* the nested loops of completeDeferredFragment that detach the flushed
\* groups from every fragment they belong to
RECURSIVE DetachFrom(_, _, _)
DetachFrom(s, g, frs) ==
  IF frs = <<>> THEN s
  ELSE DetachFrom([s EXCEPT !.fragments[Head(frs)].successfulExecutionGroups = SetDelete(@, g)],
                  g, Tail(frs))
RECURSIVE DetachAll(_, _)
DetachAll(s, gs) ==
  IF gs = <<>> THEN s
  ELSE DetachAll(DetachFrom(s, Head(gs), s.groups[Head(gs)].deferredFragmentRecords), Tail(gs))

\* a guard that only asks whether the fragment is in the root set
CanComplete_inRoot(s, f) == f \in s.rootNodes

\* the guard of completeDeferredFragment: it returns undefined unless this holds
CanComplete(s, f) ==
  f \in s.rootNodes /\ Len(s.fragments[f].pendingExecutionGroups) = 0

\* completeDeferredFragment, when it does not return undefined
CompleteDeferredFragment(s, f) ==
  LET successfulExecutionGroups == s.fragments[f].successfulExecutionGroups
      s1 == [s EXCEPT !.rootNodes = @ \ {f}]
      s2 == DetachAll(s1, successfulExecutionGroups)
      p == PromoteNonEmptyToRoot(s2, f)
  IN [s |-> p.s, newPending |-> p.newPending,
      successfulExecutionGroups |-> successfulExecutionGroups]

\* a removeDeferredFragment that promotes the children of the fragment it removes
RemoveDeferredFragment_promote(s, f) ==
  PromoteNonEmptyToRoot([s EXCEPT !.rootNodes = @ \ {f}], f).s

\* a removeDeferredFragment that leaves the fragment in the root set
RemoveDeferredFragment_keep(s, f) == s

\* removeDeferredFragment (its boolean result is f \in s.rootNodes)
RemoveDeferredFragment(s, f) == [s EXCEPT !.rootNodes = @ \ {f}]

\* removeStream
RemoveStream(s, str) == [s EXCEPT !.rootNodes = @ \ {str}]

\* --------------------------------------------------- IncrementalPublisher

Absent == [present |-> FALSE, path |-> <<>>]
Present(path) == [present |-> TRUE, path |-> path]

NodeId(s, node) == IF node \in Frags THEN s.fragments[node].id ELSE s.streams[node].id
NodePath(node) == IF node \in Frags THEN FragPath(node) ELSE StreamPath(node)

\* a _getNextId that forgets the ++ and hands out the same number again
GetNextId_same(s) == [s |-> s, id |-> String(s.nextId)]

\* _getNextId: String(this._nextId++)
GetNextId(s) == [s |-> [s EXCEPT !.nextId = @ + 1], id |-> String(s.nextId)]

\* _pendingSourcesToResults: ids in the order of newPending, each stored on
\* its node.  `node` in an entry stands for the label, which names the node.
RECURSIVE PendingSourcesToResults(_, _, _)
PendingSourcesToResults(s, newPending, pendingResults) ==
  IF newPending = <<>> THEN [s |-> s, pendingResults |-> pendingResults]
  ELSE LET pendingSource == Head(newPending)
           n == GetNextId(s)
           id == n.id   \* String(...) of a string is that string
           s1 == IF pendingSource \in Frags
                 THEN [n.s EXCEPT !.fragments[pendingSource].id = id]
                 ELSE [n.s EXCEPT !.streams[pendingSource].id = id]
       IN PendingSourcesToResults(
            s1, Tail(newPending),
            Append(pendingResults,
                   [id |-> id, path |-> NodePath(pendingSource), node |-> pendingSource]))

\* the loop of _getBestIdAndSubPath over the group's deferredFragmentRecords
RECURSIVE BestFrom(_, _, _, _, _)
BestFrom(s, initial, frs, maxLength, bestId) ==
  IF frs = <<>> THEN [maxLength |-> maxLength, bestId |-> bestId]
  ELSE LET f == Head(frs)
           id == s.fragments[f].id
           length == Len(FragPath(f))
       IN IF f = initial \/ id = NoId \/ ~(length > maxLength)
          THEN BestFrom(s, initial, Tail(frs), maxLength, bestId)
          ELSE BestFrom(s, initial, Tail(frs), length, id)

\* a _getBestIdAndSubPath that never looks at the other owners
GetBestIdAndSubPath_initial(s, initialId, initialDeferredFragmentRecord, g) ==
  LET subPath == Slice(s.groups[g].path, Len(FragPath(initialDeferredFragmentRecord)))
  IN [bestId |-> initialId, subPath |-> IF Len(subPath) > 0 THEN Present(subPath) ELSE Absent]

\* _getBestIdAndSubPath
GetBestIdAndSubPath(s, initialId, initialDeferredFragmentRecord, g) ==
  LET best == BestFrom(s, initialDeferredFragmentRecord,
                       s.groups[g].deferredFragmentRecords,
                       Len(FragPath(initialDeferredFragmentRecord)), initialId)
      subPath == Slice(s.groups[g].path, best.maxLength)
  IN [bestId |-> best.bestId,
      subPath |-> IF Len(subPath) > 0 THEN Present(subPath) ELSE Absent]

\* an entry of `incremental`; src names the group or stream whose data it carries
IncrementalEntry(id, kind, src, items, errors, path, subPath) ==
  [id |-> id, kind |-> kind, src |-> src, items |-> items, errors |-> errors,
   path |-> path, subPath |-> subPath]
\* a `completed` entry that never carries errors
CompletedEntry_bare(id, errors) == [id |-> id, errors |-> FALSE]

\* an entry of `completed`
CompletedEntry(id, errors) == [id |-> id, errors |-> errors]

\* the failure branch of _handleCompletedExecutionGroup, over the owners frs
RECURSIVE HandleFailed(_, _, _)
HandleFailed(s, g, frs) ==
  IF frs = <<>> \/ s.thrown THEN s
  ELSE LET f == Head(frs)
           id == s.fragments[f].id
       IN IF f \notin s.rootNodes THEN HandleFailed(s, g, Tail(frs))
          ELSE LET s1 == RemoveDeferredFragment(s, f)
                   s2 == IF id = NoId THEN [s1 EXCEPT !.thrown = TRUE]
                         ELSE IF s.sendIncrementalErrorsAsNull
                         THEN [s1 EXCEPT
                                 !.context.incremental =
                                    Append(@, IncrementalEntry(
                                      id, "null", g, <<>>, TRUE,
                                      IF s.sendPathAndLabelOnIncremental
                                      THEN Present(FragPath(f)) ELSE Absent,
                                      Absent)),
                                 !.context.completed = Append(@, CompletedEntry(id, FALSE))]
                         ELSE [s1 EXCEPT
                                 !.context.completed = Append(@, CompletedEntry(id, TRUE))]
               IN HandleFailed(s2, g, Tail(frs))

\* a loop over successfulExecutionGroups that pushes no entry
EmitGroups_none(s, id, f, gs) == s

\* the loop over successfulExecutionGroups in the success branch
RECURSIVE EmitGroups(_, _, _, _)
EmitGroups(s, id, f, gs) ==
  IF gs = <<>> THEN s
  ELSE LET best == GetBestIdAndSubPath(s, id, f, Head(gs))
           entry == IncrementalEntry(
                      best.bestId, "data", Head(gs), <<>>, FALSE,
                      IF s.sendPathAndLabelOnIncremental THEN Present(FragPath(f)) ELSE Absent,
                      best.subPath)
       IN EmitGroups([s EXCEPT !.context.incremental = Append(@, entry)], id, f, Tail(gs))

\* the success branch of _handleCompletedExecutionGroup, over the owners frs;
\* pull is the next() call that runs it (kept in flushLog only)
RECURSIVE HandleSuccessful(_, _, _, _)
HandleSuccessful(s, g, frs, pull) ==
  IF frs = <<>> \/ s.thrown THEN s
  ELSE LET f == Head(frs) IN
       IF ~CanComplete(s, f) THEN HandleSuccessful(s, g, Tail(frs), pull)
       ELSE LET completion == CompleteDeferredFragment(s, f)
                id == completion.s.fragments[f].id
            IN IF id = NoId THEN [completion.s EXCEPT !.thrown = TRUE]
               ELSE LET r == PendingSourcesToResults(completion.s, completion.newPending, <<>>)
                        s1 == [r.s EXCEPT !.context.pending = @ \o r.pendingResults]
                        s2 == EmitGroups(s1, id, f, completion.successfulExecutionGroups)
                        s3 == [s2 EXCEPT
                                 !.context.completed = Append(@, CompletedEntry(id, FALSE)),
                                 !.flushLog = Append(@,
                                    [fragment |-> f, id |-> id, pull |-> pull,
                                     groups |-> completion.successfulExecutionGroups,
                                     newPending |-> completion.newPending,
                                     pending |-> r.pendingResults,
                                     incremental |-> Slice(s2.context.incremental,
                                                           Len(s1.context.incremental)),
                                     rootBefore |-> s.rootNodes,
                                     pendingBefore |->
                                        s.fragments[f].pendingExecutionGroups,
                                     unresolved |->
                                        {x \in Groups :
                                           /\ f \in s.groups[x].registered
                                           /\ s.groups[x].box = "pending"},
                                     ids |-> [h \in Frags |-> r.s.fragments[h].id]])]
                    IN HandleSuccessful(s3, g, Tail(frs), pull)

\* _handleCompletedExecutionGroup
HandleCompletedExecutionGroup(s, g, pull) ==
  IF s.groups[g].box = "failed"
  THEN LET s1 == HandleFailed(s, g, s.groups[g].deferredFragmentRecords)
       IN [s1 EXCEPT !.failLog = Append(@,
             [group |-> g, pull |-> pull, rootBefore |-> s.rootNodes,
              rootAfter |-> s1.rootNodes,
              ids |-> [f \in Frags |-> s.fragments[f].id],
              incremental |-> Slice(s1.context.incremental, Len(s.context.incremental)),
              completed |-> Slice(s1.context.completed, Len(s.context.completed))])]
  ELSE HandleSuccessful(AddCompletedSuccessfulExecutionGroup(s, g), g,
                        s.groups[g].deferredFragmentRecords, pull)

\* the path a stream entry gets under sendPathAndLabelOnIncremental:
\* pathToArray(addPath(path, index))
StreamEntryPath(s, str) ==
  IF s.sendPathAndLabelOnIncremental
  THEN Present(Append(StreamPath(str), String(s.streams[str].index)))
  ELSE Absent

\* terminal branches that leave the registry and the stream alone
Uncancel_keep(s, str, callEarlyReturn) == s

\* `if (isCancellableStreamRecord(streamRecord))` of the two terminal branches
Uncancel(s, str, callEarlyReturn) ==
  IF s.streams[str].cancellable
  THEN [s EXCEPT !.cancellableStreams = @ \ {str},
                 !.streams[str].earlyReturns = IF callEarlyReturn THEN @ + 1 ELSE @]
  ELSE s

\* an items branch that never moves the cursor
AdvanceIndex_never(s, str, k) == s

\* `streamRecord.index += bareResult.items.length`, inside
\* `if (this._context.sendPathAndLabelOnIncremental)`
AdvanceIndex(s, str, k) ==
  IF s.sendPathAndLabelOnIncremental THEN [s EXCEPT !.streams[str].index = @ + k] ELSE s

\* _handleCompletedStreamItems
HandleCompletedStreamItems(s, result) ==
  LET str == result.ref
      id == s.streams[str].id
  IN IF id = NoId THEN [s EXCEPT !.thrown = TRUE]
     ELSE IF result.kind = "streamError"
     THEN LET s1 == IF s.sendIncrementalErrorsAsNull
                    THEN [s EXCEPT
                            !.context.incremental =
                               Append(@, IncrementalEntry(id, "nullItems", str, <<>>, TRUE,
                                                          StreamEntryPath(s, str), Absent)),
                            !.context.completed = Append(@, CompletedEntry(id, FALSE))]
                    ELSE [s EXCEPT !.context.completed = Append(@, CompletedEntry(id, TRUE))]
          IN Uncancel(RemoveStream([s1 EXCEPT !.streams[str].ended = "error"], str), str, TRUE)
     ELSE IF result.kind = "streamEnd"
     THEN Uncancel(RemoveStream(
                     [s EXCEPT !.context.completed = Append(@, CompletedEntry(id, FALSE)),
                               !.streams[str].ended = "end"],
                     str),
                   str, FALSE)
     ELSE LET entry == IncrementalEntry(id, "items", str, result.items, FALSE,
                                        StreamEntryPath(s, str), Absent)
              s1 == AdvanceIndex([s EXCEPT
                                    !.context.incremental = Append(@, entry),
                                    !.streams[str].handled = @ + Len(result.items)],
                                 str, Len(result.items))
          IN IF result.nested = <<>> THEN s1
             ELSE LET n == GetNewPending(s1, result.nested) IN
                  IF n.s.thrown THEN n.s
                  ELSE LET r == PendingSourcesToResults(n.s, n.newPending, <<>>)
                       IN [r.s EXCEPT !.context.pending = @ \o r.pendingResults]

\* _handleCompletedIncrementalData
HandleCompletedIncrementalData(s, result, pull) ==
  IF result.kind = "group"
  THEN HandleCompletedExecutionGroup([s EXCEPT !.traffic.handled = @ + 1], result.ref, pull)
  ELSE HandleCompletedStreamItems([s EXCEPT !.traffic.handled = @ + 1], result)

\* The rest of a batch generator once its first result is consumed
\* (currentCompletedBatch, _yieldCurrentCompletedIncrementalData): results are
\* shifted off _completedQueue and handled one by one; when the queue is empty
\* and the root set is too, every resolver of _nextQueue is resolved with
\* undefined.  A throw inside the for-of closes the generator where it is.
RECURSIVE DrainBatch(_, _)
DrainBatch(s, pull) ==
  IF s.thrown THEN s
  ELSE IF s.completedQueue # <<>>
  THEN DrainBatch(HandleCompletedIncrementalData(
                    [s EXCEPT !.completedQueue = Tail(@)], Head(s.completedQueue), pull),
                  pull)
  ELSE IF Cardinality(s.rootNodes) = 0 THEN ResolveAllUndefined(s)
  ELSE s

\* ------------------------------------------------------------- environment
\* What the execution collaborator can hand in.

\* deferredFragmentRecords of a group: one or two fragments, none an ancestor
\* of another (the executor drops a defer usage whose ancestor is in the set)
AllOwnerSeqs ==
  {<<f>> : f \in limits.frags} \cup
  {q \in {<<f, h>> : f \in limits.frags, h \in limits.frags} :
     q[1] # q[2] /\ q[1] \notin Ancestors(q[2]) /\ q[2] \notin Ancestors(q[1])}
\* the ones with at most limits.owners fragments
OwnerSeqs == {q \in AllOwnerSeqs : Len(q) <= limits.owners}
\* One document in which a field is shared by three deferred fragments:
\*   ... @defer(label: "A") { a { f ... @defer(label: "B") { x }
\*                                  ... @defer(label: "D") { x z } } p }
\*   ... @defer(label: "C") { a { f x } q }
\* The initial result has the groups of a (A and C), p (A) and q (C); the
\* group of a finds the groups of x (B, C and D) and z (D).
SharedInitial == <<(<<"A", "C">>), (<<"A">>), (<<"C">>)>>
SharedNested == <<(<<"B", "C", "D">>), (<<"D">>)>>
\* the deferredFragmentRecords of the groups handed to buildResponse
InitialOwners ==
  IF limits.run = "shared" THEN {SharedInitial}
  ELSE UNION {[1..n -> OwnerSeqs] : n \in 0..limits.initial}
\* the deferredFragmentRecords of the groups a group may find: none, or one
\* group, or the groups of the shared document
NestedOwners ==
  {<<>>} \cup (IF limits.run = "shared" THEN {SharedNested} ELSE {<<q>> : q \in OwnerSeqs})
\* the response path of a group: every owner's path is a prefix of it
GroupPaths == {<<"a">>}

NewFragment ==
  [id |-> NoId, pendingExecutionGroups |-> <<>>, successfulExecutionGroups |-> <<>>,
   children |-> <<>>, pending |-> FALSE, fnsCalled |-> 0, refused |-> FALSE]
NoGroup ==
  [created |-> FALSE, deferredFragmentRecords |-> <<>>, path |-> <<>>, box |-> "pending",
   nested |-> <<>>, thens |-> 0, awaited |-> 0, registered |-> {}]
NewGroup(owners, path) ==
  [created |-> TRUE, deferredFragmentRecords |-> owners, path |-> path, box |-> "pending",
   nested |-> <<>>, thens |-> 0, awaited |-> 0, registered |-> {}]
\* handled counts the items _handleCompletedStreamItems has been given for
\* the stream, and ended tells which sentinel it has been given: "no", "end"
\* or "error"; given is the queue as the executor made it and enqueued the
\* results the item loop has passed to _enqueue, in order (the code keeps
\* none of these)
NoStream ==
  [created |-> FALSE, id |-> NoId, index |-> 0, streamItemQueue |-> <<>>, loops |-> <<>>,
   started |-> 0, cancellable |-> FALSE, earlyReturns |-> 0, handled |-> 0, ended |-> "no",
   given |-> <<>>, enqueued |-> <<>>]
NewStream(queue, cancellable) ==
  [created |-> TRUE, id |-> NoId, index |-> 0, streamItemQueue |-> queue, loops |-> <<>>,
   started |-> 0, cancellable |-> cancellable, earlyReturns |-> 0, handled |-> 0, ended |-> "no",
   given |-> queue, enqueued |-> <<>>]

\* StreamItemRecord: an item (numbered from 1) or the sentinel that ends the
\* stream, with or without errors; async: its boxed result is still a promise
\* when the loop comes to it.
ItemRecord(i, async, nested) == [kind |-> "item", item |-> i, async |-> async, nested |-> nested]
Sentinel(failed, async) ==
  [kind |-> IF failed THEN "error" ELSE "end", item |-> 0, async |-> async, nested |-> <<>>]
RECURSIVE ItemSeqs(_, _)
\* the queues of n items numbered from i, every item sync or async; only the
\* first item may carry the nested records `nested`
ItemSeqs(i, n) ==
  IF n = 0 THEN {<<>>}
  ELSE {<<ItemRecord(i, a, <<>>)>> \o rest : a \in limits.async, rest \in ItemSeqs(i + 1, n - 1)}
StreamQueues ==
  {items \o <<Sentinel(f, a)>> :
     items \in UNION {ItemSeqs(1, n) : n \in 0..limits.items},
     f \in limits.streamErrors, a \in limits.async}

CreatedGroups == {g \in Groups : groups[g].created}
CreatedStreams == {s \in Streams : streams[s].created}
\* the next unused record names, or "none"
Created == Cardinality(CreatedGroups) + Cardinality(CreatedStreams)
FreeGroups(n) == [i \in 1..n |-> GroupNames[Cardinality(CreatedGroups) + i]]
FreeStream ==
  IF Cardinality(CreatedStreams) < Min(limits.streams, Len(StreamNames))
  THEN StreamNames[Cardinality(CreatedStreams) + 1] ELSE "none"

\* ------------------------------------------------------- mapAsyncIterator

\* mapAsyncIterator's arguments and closure: whether the source iterator has
\* a return and a throw method, whether onError was given, what onEnd is
\* ("none", "sync": returns no promise, "async": returns a promise); the
\* source: the values it has left, whether it was closed, how often its
\* return() was called; how often onEnd was called; and the calls made on
\* the mapped iterator, each with the promise chain it stands in.
NoMapped ==
  [hasReturn |-> FALSE, hasThrow |-> FALSE, onError |-> FALSE, onEnd |-> "none",
   left |-> 0, closed |-> FALSE, returns |-> 0, onEndCalls |-> 0, calls |-> <<>>]
MappedStart ==
  {[NoMapped EXCEPT !.hasReturn = r, !.hasThrow = t, !.onError = x, !.onEnd = e, !.left = n] :
     r \in BOOLEAN, t \in BOOLEAN, x \in BOOLEAN, e \in {"none", "sync", "async"},
     n \in 0..MaxSourceItems}

\* A call of next(), return() or throw() on the mapped iterator.  stage:
\*   "source"   the promise of the source's method is pending, and will
\*              settle as answer says ("value", "done" or "rejected")
\*   "mapping"  the promise of asyncMapValue is pending; the callback has
\*              returned (answer "mapped") or thrown ("threw")
\*   "closing"  abruptClose waits for the source's return()
\*   "onEnd"    the promise onEnd returned is pending
\*   "ending"   res$ of return() is fulfilled, its then(onEndWithValue) is due
\*   "settled"  the promise given to the caller has settled as answer says
\* onEnds counts the calls of onEnd made for this call.
NewCall(op, stage, answer) ==
  [op |-> op, stage |-> stage, answer |-> answer, onEnds |-> 0, after |-> "none"]

\* The promise `then(mapResult, mapReject)` returned has an outcome: in
\* return() with an onEnd, a fulfilled res$ goes on to then(onEndWithValue).
Chained(m, c, outcome) ==
  IF m.calls[c].op = "return" /\ m.onEnd # "none" /\ outcome # "rejected"
  THEN [m EXCEPT !.calls[c].stage = "ending", !.calls[c].answer = outcome]
  ELSE [m EXCEPT !.calls[c].stage = "settled", !.calls[c].answer = outcome]

\* onEndWithValue(value): calls onEnd, and hands on the value, after the
\* promise of onEnd if it returned one.  after: "chain" when called from
\* mapResult, "settle" when called as the last then() of return().
OnEndWithValue(m, c, after) ==
  IF m.onEnd = "async"
  THEN [m EXCEPT !.onEndCalls = @ + 1, !.calls[c].onEnds = @ + 1,
                 !.calls[c].stage = "onEnd", !.calls[c].after = after]
  ELSE IF after = "chain"
       THEN Chained([m EXCEPT !.onEndCalls = @ + 1, !.calls[c].onEnds = @ + 1], c,
                    m.calls[c].answer)
       ELSE [m EXCEPT !.onEndCalls = @ + 1, !.calls[c].onEnds = @ + 1,
                      !.calls[c].stage = "settled"]

\* mapResult(result): a done result goes through onEndWithValue if there is
\* one; a value is given to onNext, which returns or throws.
MapResult(m, c, threw) ==
  IF m.calls[c].answer = "done"
  THEN IF m.onEnd # "none" THEN OnEndWithValue(m, c, "chain") ELSE Chained(m, c, "done")
  ELSE [m EXCEPT !.calls[c].stage = "mapping",
                 !.calls[c].answer = IF threw THEN "threw" ELSE "mapped"]

\* mapReject(error), which exists only with an onError: the error is given
\* to onError, which returns or throws.
MapReject(m, c, threw) ==
  [m EXCEPT !.calls[c].stage = "mapping",
            !.calls[c].answer = IF threw THEN "threw" ELSE "mapped"]

\* abruptClose(error), which exists only if the source has a return method:
\* calls it and rejects with the error once it has settled.
AbruptClose(m, c) ==
  IF m.hasReturn
  THEN [m EXCEPT !.closed = TRUE, !.returns = @ + 1, !.calls[c].stage = "closing"]
  ELSE Chained(m, c, "rejected")

\* what the source's next() may answer: a source that is closed or has
\* nothing left reports done, another one produces a value or fails
SourceNext(m) ==
  IF m.closed \/ m.left = 0 THEN {"done"} ELSE {"value", "rejected"}

\* _mappedIterator.next
MappedNext ==
  /\ Len(mapped.calls) < MaxCalls
  /\ \E answer \in SourceNext(mapped) :
       mapped' = [mapped EXCEPT !.calls = Append(@, NewCall("next", "source", answer)),
                                !.left = IF answer = "value" THEN @ - 1 ELSE @,
                                !.closed = @ \/ answer = "rejected"]
  /\ UNCHANGED publisherVars

\* _mappedIterator.return
MappedReturn ==
  /\ Len(mapped.calls) < MaxCalls
  /\ mapped' =
       IF mapped.hasReturn
       THEN [mapped EXCEPT !.calls = Append(@, NewCall("return", "source", "done")),
                           !.closed = TRUE, !.returns = @ + 1]
       ELSE Chained([mapped EXCEPT !.calls = Append(@, NewCall("return", "source", "done"))],
                    Len(mapped.calls) + 1, "done")
  /\ UNCHANGED publisherVars

\* _mappedIterator.throw: the source's throw() reports done or rejects;
\* without one, the rejection is caught by abruptClose.
MappedThrow ==
  /\ Len(mapped.calls) < MaxCalls
  /\ \/ /\ mapped.hasThrow
        /\ \E answer \in {"done", "rejected"} :
             mapped' = [mapped EXCEPT !.calls = Append(@, NewCall("throw", "source", answer)),
                                      !.closed = TRUE]
     \/ /\ ~mapped.hasThrow
        /\ mapped' = [mapped EXCEPT !.calls = Append(@, NewCall("throw", "mapping", "threw"))]
  /\ UNCHANGED publisherVars

\* The promise of the source's method settles: mapResult or mapReject runs.
SourceSettles(c) ==
  /\ c \in 1..Len(mapped.calls)
  /\ mapped.calls[c].stage = "source"
  /\ IF mapped.calls[c].answer = "rejected"
     THEN IF mapped.onError
          THEN \E threw \in BOOLEAN : mapped' = MapReject(mapped, c, threw)
          ELSE mapped' = Chained(mapped, c, "rejected")
     ELSE \E threw \in BOOLEAN : mapped' = MapResult(mapped, c, threw)
  /\ UNCHANGED publisherVars

\* The promise of asyncMapValue settles: iteratorResult or abruptClose runs.
AsyncMapValueSettles(c) ==
  /\ c \in 1..Len(mapped.calls)
  /\ mapped.calls[c].stage = "mapping"
  /\ mapped' = IF mapped.calls[c].answer = "mapped"
               THEN Chained(mapped, c, "value")
               ELSE AbruptClose(mapped, c)
  /\ UNCHANGED publisherVars

\* The source's return() called by abruptClose settles: rethrow runs.
AbruptCloseSettles(c) ==
  /\ c \in 1..Len(mapped.calls)
  /\ mapped.calls[c].stage = "closing"
  /\ mapped' = Chained(mapped, c, "rejected")
  /\ UNCHANGED publisherVars

\* The promise onEnd returned is fulfilled: `() => value` runs.
OnEndSettles(c) ==
  /\ c \in 1..Len(mapped.calls)
  /\ mapped.calls[c].stage = "onEnd"
  /\ mapped' = IF mapped.calls[c].after = "chain"
               THEN Chained(mapped, c, mapped.calls[c].answer)
               ELSE [mapped EXCEPT !.calls[c].stage = "settled"]
  /\ UNCHANGED publisherVars

\* res$ of return() is fulfilled: the onEndWithValue of its last then() runs.
ReturnThen(c) ==
  /\ c \in 1..Len(mapped.calls)
  /\ mapped.calls[c].stage = "ending"
  /\ mapped' = OnEndWithValue(mapped, c, "settle")
  /\ UNCHANGED publisherVars

\* ---------------------------------------------------------------- actions

\* The runs of Spec: the default options (both false), streams that are not
\* cancellable and end without an error.
CoreLimits ==
  [run |-> "core", frags |-> {"A", "B", "C"}, groups |-> MaxGroups, streams |-> MaxStreams,
   records |-> MaxRecords, initial |-> Min(MaxInitial, MaxGroups), items |-> MaxItems,
   pulls |-> MaxPulls, outstanding |-> MaxOutstanding, owners |-> MaxOwners,
   async |-> BOOLEAN, sendIncrementalErrorsAsNull |-> {FALSE},
   sendPathAndLabelOnIncremental |-> {FALSE}, cancellable |-> {FALSE},
   streamErrors |-> {FALSE}, signal |-> {"none"}, closes |-> 0, earlyReturn |-> {"fulfilled"},
   mapped |-> {NoMapped}]

\* The runs of SpecOptions: every setting of the options, cancellable streams
\* and failing streams, over one record less.
OptionLimits ==
  [CoreLimits EXCEPT !.run = "options", !.records = MaxRecords - 1,
                     !.sendIncrementalErrorsAsNull = BOOLEAN,
                     !.sendPathAndLabelOnIncremental = BOOLEAN,
                     !.cancellable = BOOLEAN,
                     !.streamErrors = BOOLEAN]

\* The runs of SpecShared: the document of SharedInitial and SharedNested,
\* with or without a stream whose sentinel is awaited.
SharedLimits ==
  [CoreLimits EXCEPT !.run = "shared", !.frags = Frags,
                     !.groups = Len(SharedInitial) + Len(SharedNested),
                     !.records = Len(SharedInitial) + Len(SharedNested) + MaxStreams,
                     !.initial = Len(SharedInitial), !.items = 0, !.async = {TRUE}]

\* The runs of SpecStream: one execution group and one stream of up to
\* MaxItems + 2 items, under every setting of the options.
StreamLimits ==
  [OptionLimits EXCEPT !.run = "stream", !.frags = {"A"}, !.owners = 1,
                       !.groups = MaxGroups - 2, !.initial = MaxInitial - 1,
                       !.records = MaxRecords - 1, !.items = MaxItems + 2]

\* The runs of SpecCancel: a consumer that may call return() and throw(),
\* cancellable streams whose earlyReturn() may reject, one top-level fragment.
CancelLimits ==
  [CoreLimits EXCEPT !.run = "cancel", !.frags = {"A"}, !.owners = 1,
                     !.groups = MaxGroups - 2, !.streams = MaxStreams + 1,
                     !.initial = MaxInitial - 1, !.records = MaxRecords,
                     !.pulls = MaxPulls - 1, !.items = 0,
                     !.cancellable = {TRUE},
                     !.closes = MaxCloses,
                     !.earlyReturn = {"fulfilled", "rejected"}]

\* The other runs of SpecCancel: a signal that may abort, with a consumer
\* that only calls next().
SignalLimits ==
  [CancelLimits EXCEPT !.signal = {"live"}, !.closes = 0, !.earlyReturn = {"fulfilled"}]

\* The runs of SpecMap: an iterator made by mapAsyncIterator over a source
\* with or without return() and throw(), with and without onError and onEnd.
MapLimits ==
  [CoreLimits EXCEPT !.run = "map", !.mapped = MappedStart]

\* what held when a next() call was made: the publisher state it found,
\* whether return() or throw() had been called, whether the signal had aborted
NoPullInfo == [issued |-> "none", closed |-> FALSE, aborted |-> FALSE]

\* the state after `new IncrementalPublisher(context)`
InitWith(l) ==
  /\ limits = l
  /\ phase = "new"
  /\ sendIncrementalErrorsAsNull \in l.sendIncrementalErrorsAsNull
  /\ sendPathAndLabelOnIncremental \in l.sendPathAndLabelOnIncremental
  /\ rootNodes = {}
  /\ completedQueue = <<>>
  /\ nextQueue = <<>>
  /\ resumes = <<>>
  /\ fragments = [f \in Frags |-> NewFragment]
  /\ groups = [g \in Groups |-> NoGroup]
  /\ streams = [s \in Streams |-> NoStream]
  /\ nextId = 0
  /\ incrementalPublisherState = Started
  /\ pulls = [p \in Pulls |-> [st |-> "idle", first |-> NoResult]]
  /\ cancellableStreams = {}
  /\ initialResult = [pending |-> <<>>, hasNext |-> FALSE]
  /\ out = <<>>
  /\ flushLog = <<>>
  /\ failLog = <<>>
  /\ promoteLog = <<>>
  /\ contexts = [p \in Pulls |-> EmptyContext]
  /\ traffic = NoTraffic
  /\ mapped \in l.mapped
  /\ signal \in l.signal
  /\ finishes = <<>>
  /\ pullInfo = [p \in Pulls |-> NoPullInfo]

Init == InitWith(CoreLimits)
InitOptions == InitWith(OptionLimits)
InitShared == InitWith(SharedLimits)
InitCancel == InitWith(CancelLimits) \/ InitWith(SignalLimits)
InitStream == InitWith(StreamLimits)
InitMap == InitWith(MapLimits)

\* buildIncrementalResponse / buildResponse, with the incrementalDataRecords
\* the initial execution found: up to MaxInitial execution groups, then
\* possibly a stream.
BuildResponse ==
  /\ phase = "new"
  /\ \E owners \in InitialOwners, withStream \in BOOLEAN :
       \E paths \in [1..Len(owners) -> GroupPaths],
          queue \in IF withStream THEN StreamQueues ELSE {<<>>},
          cancellable \in IF withStream THEN limits.cancellable ELSE {FALSE} :
         /\ withStream => limits.streams > 0
         /\ Len(owners) <= Min(limits.groups, Len(GroupNames))
         /\ Len(owners) + (IF withStream THEN 1 ELSE 0) <= limits.records
         /\ LET n == Len(owners)
                gs == [i \in 1..n |-> GroupNames[i]]
                records == IF withStream THEN gs \o <<StreamNames[1]>> ELSE gs
                s0 == [Cur EXCEPT
                         !.groups = [g \in Groups |->
                            IF \E i \in 1..n : GroupNames[i] = g
                            THEN LET i == CHOOSE i \in 1..n : GroupNames[i] = g
                                 IN NewGroup(owners[i], paths[i])
                            ELSE @[g]],
                         !.streams = [s \in Streams |->
                            IF withStream /\ s = StreamNames[1]
                            THEN NewStream(queue, cancellable) ELSE @[s]],
                         !.cancellableStreams =
                            IF withStream /\ cancellable THEN {StreamNames[1]} ELSE {}]
                n1 == GetNewPending(s0, records)
                r == PendingSourcesToResults(n1.s, n1.newPending, <<>>)
            IN /\ Commit(r.s)
               /\ initialResult' = [pending |-> r.pendingResults, hasNext |-> TRUE]
  /\ phase' = "running"
  /\ UNCHANGED <<limits, sendIncrementalErrorsAsNull, sendPathAndLabelOnIncremental,
                 incrementalPublisherState, out, signal, finishes, pullInfo>>

\* the then-callbacks `resolved => this._enqueue(resolved)` of a group's result
RECURSIVE RunThens(_, _, _)
RunThens(s, g, n) == IF n = 0 THEN s ELSE RunThens(Enqueue(s, GroupResult(g)), g, n - 1)

\* every owner of a nested group is an owner of the group that found it or
\* nested below one, and the owners differ from that group's (fields with the
\* same owners stay in the group)
NestedOwnerSeqs(g) ==
  {l \in NestedOwners : \A i \in 1..Len(l) :
     /\ Range(l[i]) # Range(groups[g].deferredFragmentRecords)
     /\ \A f \in Range(l[i]) :
          \E o \in Range(groups[g].deferredFragmentRecords) : f = o \/ o \in Ancestors(f)}

\* The executor settles a group's boxed result: a failure, or a success that
\* may have found more execution groups and one stream.
ResolveGroup(g) ==
  /\ phase = "running"
  /\ groups[g].created
  /\ groups[g].box = "pending"
  /\ \/ LET s0 == [Cur EXCEPT !.groups[g].box = "failed", !.groups[g].thens = 0]
        IN Commit(RunThens(s0, g, groups[g].thens))
     \/ \E owners \in NestedOwnerSeqs(g), withStream \in BOOLEAN :
          \E path \in {p \in GroupPaths : IsPrefix(groups[g].path, p)},
             queue \in IF withStream THEN StreamQueues ELSE {<<>>},
             cancellable \in IF withStream THEN limits.cancellable ELSE {FALSE} :
            /\ Cardinality(CreatedGroups) + Len(owners) <= Min(limits.groups, Len(GroupNames))
            /\ withStream => FreeStream # "none"
            /\ Created + Len(owners) + (IF withStream THEN 1 ELSE 0) <= limits.records
            /\ LET found == FreeGroups(Len(owners))
                   nested == found \o (IF withStream THEN <<FreeStream>> ELSE <<>>)
                   s0 == [Cur EXCEPT
                            !.groups[g].box = "ok",
                            !.groups[g].thens = 0,
                            !.groups[g].nested = nested,
                            !.cancellableStreams =
                               IF withStream /\ cancellable THEN @ \cup {FreeStream} ELSE @]
                   s1 == [s0 EXCEPT !.groups = [x \in Groups |->
                            IF \E i \in 1..Len(found) : found[i] = x
                            THEN LET i == CHOOSE i \in 1..Len(found) : found[i] = x
                                 IN NewGroup(owners[i], path)
                            ELSE @[x]]]
                   s2 == IF withStream
                         THEN [s1 EXCEPT !.streams[FreeStream] = NewStream(queue, cancellable)]
                         ELSE s1
               IN Commit(RunThens(s2, g, groups[g].thens))
  /\ UNCHANGED <<limits, phase, sendIncrementalErrorsAsNull, sendPathAndLabelOnIncremental,
                 incrementalPublisherState, initialResult, out, signal, finishes, pullInfo>>

\* The promise a stream's item loop awaits settles (and the extra tick has
\* passed): _onStreamItems goes on after `await Promise.resolve()`.
StreamResume(str, i) ==
  /\ phase = "running"
  /\ i \in 1..Len(streams[str].loops)
  /\ LET rec == streams[str].loops[i]
         s0 == [Cur EXCEPT !.streams[str].loops =
                  SubSeq(@, 1, i - 1) \o SubSeq(@, i + 1, Len(@))]
     IN Commit(StreamItem(s0, str, rec, <<>>, <<>>))
  /\ UNCHANGED <<limits, phase, sendIncrementalErrorsAsNull, sendPathAndLabelOnIncremental,
                 incrementalPublisherState, initialResult, out, signal, finishes, pullInfo>>

\* _finish up to its first suspension, apart from the assignment of the
\* state: abort(), then _returnAsyncIterators up to `await abort()`
Finish(s) == Abort(Abort(s))

\* return() or throw() has been called
Closed == \E i \in 1..Len(finishes) : finishes[i].kind \in {"return", "throw"}

\* a call of _finish that waits for the tick of `await abort()`: by next()
\* (the call `pull`), return() or throw(); registry is cancellableStreams
\* and suspended the next() calls waiting on the graph, as the call found them
NewFinish(kind, pull) ==
  [kind |-> kind, pull |-> pull, st |-> "tick", awaits |-> <<>>,
   registry |-> cancellableStreams, unsettled |-> 0,
   suspended |-> {p \in Pulls : pulls[p].st = "waiting"}]

\* the loop of _returnAsyncIterators: one earlyReturn() promise for every
\* stream of cancellableStreams
EarlyReturns(registry) ==
  LET called == SelectSeq(StreamNames, LAMBDA str : str \in registry)
  IN [j \in 1..Len(called) |-> [stream |-> called[j], st |-> "pending"]]

\* _returnAsyncIterators goes on after `await abort()`: it calls earlyReturn
\* on the streams that are registered now and waits for Promise.all
ReturnAsyncIterators(i) ==
  /\ i \in 1..Len(finishes)
  /\ finishes[i].st = "tick"
  /\ LET promises == EarlyReturns(cancellableStreams) IN
     /\ finishes' = [finishes EXCEPT ![i].st = "all", ![i].awaits = promises]
     /\ Commit([Cur EXCEPT !.streams = [str \in Streams |->
          IF \E j \in 1..Len(promises) : promises[j].stream = str
          THEN [@[str] EXCEPT !.earlyReturns = @ + 1] ELSE @[str]]])
  /\ UNCHANGED <<limits, phase, sendIncrementalErrorsAsNull, sendPathAndLabelOnIncremental,
                 incrementalPublisherState, initialResult, out, signal, pullInfo>>

\* the promise an earlyReturn() call returned settles
EarlyReturnSettles(i, j) ==
  /\ i \in 1..Len(finishes)
  /\ finishes[i].st = "all"
  /\ j \in 1..Len(finishes[i].awaits)
  /\ finishes[i].awaits[j].st = "pending"
  /\ \E outcome \in limits.earlyReturn :
       finishes' = [finishes EXCEPT ![i].awaits[j].st = outcome]
  /\ UNCHANGED <<limits, phase, sendIncrementalErrorsAsNull, sendPathAndLabelOnIncremental,
                 rootNodes, completedQueue, nextQueue, resumes, fragments, groups, streams, nextId,
                 incrementalPublisherState, pulls, cancellableStreams, initialResult, out,
                 flushLog, failLog, promoteLog, contexts, traffic, mapped, signal, pullInfo>>

\* a Promise.all that is fulfilled as soon as one of the promises has settled
AllSettled_early(awaits) ==
  IF \E j \in 1..Len(awaits) : awaits[j].st # "pending" THEN "fulfilled"
  ELSE IF awaits = <<>> THEN "fulfilled" ELSE "pending"

\* what a call of _finish comes to once Promise.all has settled: Promise.all
\* rejects with the first rejection and is fulfilled when every promise is
AllSettled(awaits) ==
  IF \E j \in 1..Len(awaits) : awaits[j].st = "rejected" THEN "rejected"
  ELSE IF \A j \in 1..Len(awaits) : awaits[j].st = "fulfilled" THEN "fulfilled"
  ELSE "pending"

\* _finish returns to its caller: next() in state Completed and return()
\* resolve to done, throw() rejects with the error it was given; a rejection
\* of Promise.all is passed on by all three
FinishSettles(i) ==
  /\ i \in 1..Len(finishes)
  /\ finishes[i].st = "all"
  /\ AllSettled(finishes[i].awaits) # "pending"
  /\ LET f == finishes[i]
         rejected == AllSettled(f.awaits) = "rejected"
         left == Cardinality({j \in 1..Len(f.awaits) : f.awaits[j].st = "pending"})
     IN /\ finishes' = [finishes EXCEPT
                          ![i].st = IF rejected THEN "rejected"
                                    ELSE IF f.kind = "throw" THEN "error" ELSE "done",
                          ![i].unsettled = left]
        /\ pulls' = IF f.kind = "next"
                    THEN [pulls EXCEPT ![f.pull] =
                            [st |-> IF rejected THEN "failed" ELSE "done", first |-> NoResult]]
                    ELSE pulls
  /\ UNCHANGED <<limits, phase, sendIncrementalErrorsAsNull, sendPathAndLabelOnIncremental,
                 rootNodes, completedQueue, nextQueue, resumes, fragments, groups, streams, nextId,
                 incrementalPublisherState, cancellableStreams, initialResult, out,
                 flushLog, failLog, promoteLog, contexts, traffic, mapped, signal, pullInfo>>

\* a test that takes every context to have entries to yield
HasEntries_always(s) == TRUE
\* `incremental.length > 0 || completed.length > 0`
HasEntries(s) == Len(s.context.incremental) > 0 \/ Len(s.context.completed) > 0

\* The end of one turn of _next's do-while for the call `pull`, after a batch
\* has been handled: the call rejects if an invariant threw, yields a payload
\* if the context has incremental or completed entries, and otherwise waits
\* on nextCompletedBatch.
Settle(s, pull) ==
  IF s.thrown
  THEN /\ Commit([s EXCEPT !.pulls[pull] = [st |-> "threw", first |-> NoResult],
                           !.contexts[pull] = EmptyContext])
       /\ UNCHANGED <<incrementalPublisherState, out>>
  ELSE IF HasEntries(s)
  THEN /\ Commit([s EXCEPT !.pulls[pull] = [st |-> "yielded", first |-> NoResult],
                           !.contexts[pull] = EmptyContext])
       /\ incrementalPublisherState' = IF HasNext(s) THEN incrementalPublisherState ELSE Completed
       /\ out' = Append(out, [pull |-> pull, hasNext |-> HasNext(s),
                              root |-> s.rootNodes,
                              closed |-> Closed, aborted |-> signal = "aborted",
                              pending |-> s.context.pending,
                              incremental |-> s.context.incremental,
                              completed |-> s.context.completed])
  ELSE /\ Commit([s EXCEPT !.nextQueue = Append(@, pull),
                           !.pulls[pull] = [st |-> "waiting", first |-> NoResult],
                           !.contexts[pull] = s.context])
       /\ UNCHANGED <<incrementalPublisherState, out>>

Unsettled == {p \in Pulls : pulls[p].st \in {"waiting", "batch", "released", "finishing"}}

\* The consumer calls next(): _next up to its first await.
Next_(pull) ==
  /\ phase = "running"
  /\ pulls[pull].st = "idle"
  /\ \A p \in Pulls : p < pull => pulls[p].st # "idle"
  /\ pull <= limits.pulls
  /\ Cardinality(Unsettled) < limits.outstanding
  /\ CASE incrementalPublisherState = Finished ->
            /\ Commit([Cur EXCEPT !.pulls[pull] = [st |-> "done", first |-> NoResult]])
            /\ UNCHANGED <<incrementalPublisherState, out, finishes>>
       [] incrementalPublisherState = Completed ->
            /\ Commit([Finish(Cur) EXCEPT
                         !.pulls[pull] = [st |-> "finishing", first |-> NoResult]])
            /\ incrementalPublisherState' = Finished
            /\ finishes' = Append(finishes, NewFinish("next", pull))
            /\ UNCHANGED out
       [] OTHER -> Settle(DrainBatch(Cur, pull), pull) /\ UNCHANGED finishes
  /\ pullInfo' = [pullInfo EXCEPT ![pull] =
       [issued |-> incrementalPublisherState, closed |-> Closed, aborted |-> signal = "aborted"]]
  /\ UNCHANGED <<limits, phase, sendIncrementalErrorsAsNull, sendPathAndLabelOnIncremental,
                 initialResult, signal>>

\* _next goes on after `await nextCompletedBatch()` with the batch it was given.
NextResume(pull) ==
  /\ pulls[pull].st = "batch"
  /\ resumes # <<>> /\ Head(resumes) = pull
  /\ Settle(DrainBatch(HandleCompletedIncrementalData(
                          [Cur EXCEPT !.resumes = Tail(@), !.context = contexts[pull]],
                          pulls[pull].first, pull), pull), pull)
  /\ UNCHANGED <<limits, phase, sendIncrementalErrorsAsNull, sendPathAndLabelOnIncremental,
                 initialResult, signal, finishes, pullInfo>>

\* _next goes on after `await nextCompletedBatch()` gave undefined: the loop
\* ends and the call resolves to done, or rejects with the signal's reason
\* if the signal has aborted.
NextEnd(pull) ==
  /\ pulls[pull].st = "released"
  /\ resumes # <<>> /\ Head(resumes) = pull
  /\ Commit([Cur EXCEPT !.resumes = Tail(@),
                        !.pulls[pull] =
       [st |-> IF signal = "aborted" THEN "aborted" ELSE "done", first |-> NoResult]])
  /\ UNCHANGED <<limits, phase, sendIncrementalErrorsAsNull, sendPathAndLabelOnIncremental,
                 incrementalPublisherState, initialResult, out, signal, finishes, pullInfo>>

Next ==
  \/ BuildResponse
  \/ \E g \in Groups : ResolveGroup(g)
  \/ \E str \in Streams, i \in 1..2 : StreamResume(str, i)
  \/ \E pull \in Pulls : Next_(pull)
  \/ \E pull \in Pulls : NextResume(pull)
  \/ \E pull \in Pulls : NextEnd(pull)
  \/ \E i \in 1..MaxPulls + MaxCloses : ReturnAsyncIterators(i)
  \/ \E i \in 1..MaxPulls + MaxCloses : FinishSettles(i)

\* a return() or throw() that leaves incrementalPublisherState as it is
Return_keepState(kind) ==
  /\ phase = "running"
  /\ Cardinality({i \in 1..Len(finishes) : finishes[i].kind # "next"}) < limits.closes
  /\ Commit(Finish(Cur))
  /\ finishes' = Append(finishes, NewFinish(kind, 0))
  /\ UNCHANGED <<limits, phase, sendIncrementalErrorsAsNull, sendPathAndLabelOnIncremental,
                 incrementalPublisherState, initialResult, out, signal, pullInfo>>

\* The consumer calls return() or throw(): _finish up to its first suspension.
Return_(kind) ==
  /\ phase = "running"
  /\ Cardinality({i \in 1..Len(finishes) : finishes[i].kind # "next"}) < limits.closes
  /\ incrementalPublisherState' = Finished
  /\ Commit(Finish(Cur))
  /\ finishes' = Append(finishes, NewFinish(kind, 0))
  /\ UNCHANGED <<limits, phase, sendIncrementalErrorsAsNull, sendPathAndLabelOnIncremental,
                 initialResult, out, signal, pullInfo>>

\* The governing signal aborts: the listener _subscribe added calls abort().
SignalAbort ==
  /\ phase = "running"
  /\ signal = "live"
  /\ signal' = "aborted"
  /\ Commit(Abort(Cur))
  /\ UNCHANGED <<limits, phase, sendIncrementalErrorsAsNull, sendPathAndLabelOnIncremental,
                 incrementalPublisherState, initialResult, out, finishes, pullInfo>>

NextCancel ==
  \/ Next
  \/ \E i \in 1..MaxPulls + MaxCloses, j \in 1..Len(StreamNames) : EarlyReturnSettles(i, j)
  \/ \E kind \in {"return", "throw"} : Return_(kind)
  \/ SignalAbort

Spec == Init /\ [][Next]_vars
SpecOptions == InitOptions /\ [][Next]_vars
SpecShared == InitShared /\ [][Next]_vars
SpecCancel == InitCancel /\ [][NextCancel]_vars
SpecStream == InitStream /\ [][Next]_vars

\* the calls a consumer makes on a mapped iterator, and the promise
\* reactions that follow them
NextMap ==
  \/ MappedNext
  \/ MappedReturn
  \/ MappedThrow
  \/ \E c \in 1..MaxCalls : SourceSettles(c)
  \/ \E c \in 1..MaxCalls : AsyncMapValueSettles(c)
  \/ \E c \in 1..MaxCalls : AbruptCloseSettles(c)
  \/ \E c \in 1..MaxCalls : OnEndSettles(c)
  \/ \E c \in 1..MaxCalls : ReturnThen(c)

SpecMap == InitMap /\ [][NextMap]_vars

\* ------------------------------------------------------------- properties

RECURSIVE Flat(_)
Flat(q) == IF q = <<>> THEN <<>> ELSE Head(q) \o Flat(Tail(q))
\* the pending entries of the initial result and of the first k payloads
PendingUpTo(k) == initialResult.pending \o Flat([i \in 1..k |-> out[i].pending])
\* every pending entry so far, in the order it was announced
Announced == PendingUpTo(Len(out))
\* the ids the incremental and completed entries of the k-th payload carry
EntryIds(k) ==
  {out[k].incremental[i].id : i \in 1..Len(out[k].incremental)}
    \cup {out[k].completed[i].id : i \in 1..Len(out[k].completed)}
\* the incremental entries that carry the data of an execution group
DataEntries ==
  Flat([k \in 1..Len(out) |-> SelectSeq(out[k].incremental, LAMBDA e : e.kind = "data")])
\* every completed entry so far
AllCompleted == Flat([k \in 1..Len(out) |-> out[k].completed])
\* the k-th payload has a completed entry without errors for id
CompletedOk(k, id) == \E c \in Range(out[k].completed) : c.id = id /\ ~c.errors
\* node was announced in the initial result or in one of the first k payloads
AnnouncedBy(k, node) == \E a \in Range(PendingUpTo(k)) : a.node = node

\* C1: the ids of the pending entries, over the initial result and every
\* payload, are decimal strings, each numerically strictly greater than every
\* id announced before it, so no id is used for two pending entries.
C1_IdsIncrease ==
  /\ \A i \in 1..Len(Announced) : \E n \in 0..MaxId : String(n) = Announced[i].id
  /\ \A i, j \in 1..Len(Announced) :
       i < j => IdNum(Announced[i].id) < IdNum(Announced[j].id)
\* ids were announced in the initial result and again in a later payload
C1_Witness ==
  /\ Len(initialResult.pending) >= 2
  /\ \E k \in 1..Len(out) : Len(out[k].pending) >= 1

\* C2: every id in an incremental or completed entry of a payload was
\* announced by a pending entry of the initial result, of an earlier payload
\* or of that payload.
C2_AnnouncedBefore ==
  \A k \in 1..Len(out) : \A id \in EntryIds(k) :
    \E a \in Range(PendingUpTo(k)) : a.id = id

\* C3: a payload with hasNext false is the last payload: nothing is yielded
\* after it.
C3_NothingAfterFinal ==
  \A k \in 1..Len(out) : ~out[k].hasNext => k = Len(out)

\* C4: the data of an execution group is in at most one incremental entry
\* over the whole sequence of payloads.
C4_DataOnce ==
  \A i, j \in 1..Len(DataEntries) : i < j => DataEntries[i].src # DataEntries[j].src

\* C5: a fragment is flushed only when it is in the root set, its set of
\* pending execution groups is empty, and no execution group registered to it
\* is still unresolved.
C5_FlushOnlyWhenDone ==
  \A i \in 1..Len(flushLog) :
    /\ flushLog[i].fragment \in flushLog[i].rootBefore
    /\ flushLog[i].pendingBefore = <<>>
    /\ flushLog[i].unresolved = {}
\* a fragment with two execution groups has been flushed
C5_Witness ==
  \E i \in 1..Len(flushLog) : Len(flushLog[i].groups) >= 2

\* C6 as claimed: a fragment and a node in its children set are never both in
\* the root set.
C6_NoChildWithOwner ==
  \A f \in Frags : \A c \in Range(fragments[f].children) :
    ~(f \in rootNodes /\ c \in rootNodes)
\* C6, amended: a deferred fragment is never in the root set together with
\* its parent fragment, and when the parent was announced, the fragment's
\* pending entry comes no earlier than the payload with the parent's
\* completed entry.
C6_NotBeforeParent ==
  /\ \A f \in Frags :
       (f \in rootNodes /\ Parent(f) # NoFrag) => Parent(f) \notin rootNodes
  /\ \A k \in 1..Len(out) : \A e \in Range(out[k].pending) :
       (e.node \in Frags /\ Parent(e.node) # NoFrag /\ AnnouncedBy(k, Parent(e.node)))
         => \E j \in 1..k : \E a \in Range(PendingUpTo(k)) :
              a.node = Parent(e.node) /\ CompletedOk(j, a.id)
\* the nested fragment B was announced by a payload after its parent A had
\* been announced
C6_Witness ==
  \E k \in 1..Len(out) : \E e \in Range(out[k].pending) :
    e.node = "B" /\ AnnouncedBy(k, "A")

\* C7: a delivery node is announced in at most one pending entry.
C7_AnnouncedOnce ==
  \A i, j \in 1..Len(Announced) : i < j => Announced[i].node # Announced[j].node

\* The owners an entry of the flush e may be attributed to under C8: the
\* flushed fragment and, of the group's other owners, those in S.
LongestOf(S) ==
  CHOOSE n \in {Len(FragPath(f)) : f \in S} : \A f \in S : Len(FragPath(f)) <= n
\* the owner with the longest path in S: the flushed fragment if it is one,
\* otherwise the first one in the order of deferredFragmentRecords
ChosenOwner(e, g, S) ==
  IF Len(FragPath(e.fragment)) = LongestOf(S) THEN e.fragment
  ELSE LET q == groups[g].deferredFragmentRecords
           i == CHOOSE i \in 1..Len(q) :
                  /\ q[i] \in S /\ Len(FragPath(q[i])) = LongestOf(S)
                  /\ \A j \in 1..(i - 1) : ~(q[j] \in S /\ Len(FragPath(q[j])) = LongestOf(S))
       IN q[i]
\* the k-th entry of the flush e has the id of that owner and the group's
\* path without that owner's path as subPath
AttributedTo(e, k, S) ==
  LET g == e.groups[k]
      c == ChosenOwner(e, g, S)
      rest == Slice(groups[g].path, Len(FragPath(c)))
  IN /\ e.incremental[k].id = e.ids[c]
     /\ e.incremental[k].subPath = IF rest = <<>> THEN Absent ELSE Present(rest)

\* C8 as claimed: each group of a flush is emitted with the id of the owner
\* with the longest path among the flushed fragment and all other owners.
C8_LongestOwner ==
  \A i \in 1..Len(flushLog) : \A k \in 1..Len(flushLog[i].groups) :
    AttributedTo(flushLog[i], k,
                 {flushLog[i].fragment}
                   \cup Range(groups[flushLog[i].groups[k]].deferredFragmentRecords))
\* C8, amended: each group of a flush is emitted with the id of the owner with
\* the longest path among the flushed fragment and the other owners that have
\* an id (ties keep the flushed fragment), and subPath is the group's path
\* without that owner's path, omitted when empty.
C8_LongestOwnerWithId ==
  \A i \in 1..Len(flushLog) : \A k \in 1..Len(flushLog[i].groups) :
    AttributedTo(flushLog[i], k,
                 {flushLog[i].fragment}
                   \cup {o \in Range(groups[flushLog[i].groups[k]].deferredFragmentRecords) :
                           flushLog[i].ids[o] # NoId})
\* a flush has emitted a group under the id of another, deeper owner
C8_Witness ==
  \E i \in 1..Len(flushLog) : \E k \in 1..Len(flushLog[i].groups) :
    flushLog[i].incremental[k].id # flushLog[i].id

\* the owners of the failed group that were in the root set, in their order
RootedOwners(e) ==
  SelectSeq(groups[e.group].deferredFragmentRecords, LAMBDA f : f \in e.rootBefore)

\* C9 as claimed: handling a failed group removes its owners from the root set
\* and pushes, for each owner that was in the root set, one completed entry
\* with the errors, and nothing for the others.
C9_CompletedCarriesErrors ==
  \A i \in 1..Len(failLog) :
    LET e == failLog[i]
        ro == RootedOwners(e)
    IN /\ e.rootAfter = e.rootBefore \ Range(groups[e.group].deferredFragmentRecords)
       /\ e.completed = [k \in 1..Len(ro) |-> [id |-> e.ids[ro[k]], errors |-> TRUE]]
\* C9, amended: handling a failed group removes its owners from the root set
\* and pushes, for each owner that was in the root set and for no other, one
\* completed entry; the entry has the errors unless sendIncrementalErrorsAsNull
\* is set, and then the errors are in an incremental entry with null data
\* pushed before it.  No id is in more than one completed entry over the
\* whole sequence.
C9_OneCompletedPerOwner ==
  /\ \A i \in 1..Len(failLog) :
       LET e == failLog[i]
           ro == RootedOwners(e)
       IN /\ e.rootAfter = e.rootBefore \ Range(groups[e.group].deferredFragmentRecords)
          /\ e.completed = [k \in 1..Len(ro) |->
                              [id |-> e.ids[ro[k]], errors |-> ~sendIncrementalErrorsAsNull]]
          /\ Len(e.incremental) = IF sendIncrementalErrorsAsNull THEN Len(ro) ELSE 0
          /\ \A k \in 1..Len(e.incremental) :
               /\ e.incremental[k].id = e.ids[ro[k]]
               /\ e.incremental[k].kind = "null"
               /\ e.incremental[k].errors
  /\ \A i, j \in 1..Len(AllCompleted) : i < j => AllCompleted[i].id # AllCompleted[j].id
\* under sendIncrementalErrorsAsNull, a failed group with two owners, one of
\* them in the root set, has been handled
C9_Witness ==
  /\ sendIncrementalErrorsAsNull
  /\ \E i \in 1..Len(failLog) :
       /\ Len(failLog[i].completed) = 1
       /\ Len(groups[failLog[i].group].deferredFragmentRecords) = 2

\* C10: a flush pushes one incremental entry for each of the fragment's
\* completed groups, in their order, and one pending entry for each node it
\* promoted; the payload its pull yields has these entries and exactly one
\* completed entry for the fragment's id, without errors.
C10_FlushEntries ==
  \A i \in 1..Len(flushLog) :
    LET e == flushLog[i] IN
    /\ Len(e.incremental) = Len(e.groups)
    /\ \A k \in 1..Len(e.groups) :
         e.incremental[k].src = e.groups[k] /\ e.incremental[k].kind = "data"
    /\ [k \in 1..Len(e.pending) |-> e.pending[k].node] = e.newPending
    /\ \A k \in 1..Len(out) :
         out[k].pull = e.pull =>
           /\ \A x \in Range(e.incremental) : x \in Range(out[k].incremental)
           /\ \A x \in Range(e.pending) : x \in Range(out[k].pending)
           /\ Cardinality({j \in 1..Len(out[k].completed) : out[k].completed[j].id = e.id}) = 1
           /\ [id |-> e.id, errors |-> FALSE] \in Range(out[k].completed)
\* a flush with a completed group that promoted a node is in a yielded payload
C10_Witness ==
  \E i \in 1..Len(flushLog) : \E k \in 1..Len(out) :
    /\ out[k].pull = flushLog[i].pull
    /\ Len(flushLog[i].groups) >= 1
    /\ Len(flushLog[i].newPending) >= 1

\* C11: the publisher state only ever moves Started -> Completed, Completed ->
\* Finished or Started -> Finished (never backward, and never on from
\* Finished), and a next() made in state Finished resolves to done at once.
C11_StateMovesForward ==
  /\ [][incrementalPublisherState' # incrementalPublisherState =>
          <<incrementalPublisherState, incrementalPublisherState'>> \in
            {<<Started, Completed>>, <<Completed, Finished>>, <<Started, Finished>>}]_vars
  /\ [](\A p \in Pulls : pullInfo[p].issued = Finished => pulls[p].st = "done")


\* the calls of return() and throw(), as indices of finishes
Closes == {i \in 1..Len(finishes) : finishes[i].kind \in {"return", "throw"}}
\* the calls of return() made after an earlier return() or throw()
RepeatedReturns == {i \in Closes : finishes[i].kind = "return" /\ \E j \in Closes : j < i}
\* a next() call that has settled, and a return() or throw() that has
SettledPull(p) == pulls[p].st \in {"done", "yielded", "threw", "aborted", "failed"}
SettledFinish(i) == finishes[i].st \in {"done", "rejected", "error"}
\* one of the earlyReturn() promises the i-th _finish waited for has rejected
SomeRejected(i) == \E j \in 1..Len(finishes[i].awaits) : finishes[i].awaits[j].st = "rejected"

\* C12 as claimed: after return() or throw() every later next() resolves to
\* done, and a repeated return() resolves to done.
C12_DoneAfterClose ==
  /\ \A p \in Pulls : pullInfo[p].closed /\ SettledPull(p) => pulls[p].st = "done"
  /\ \A i \in RepeatedReturns : SettledFinish(i) => finishes[i].st = "done"

\* C12, amended: after return() or throw() no later next() is suspended or
\* resolves to a payload: it resolves to done, or rejects when an
\* earlyReturn() call it waited for rejected; a repeated return() resolves to
\* done unless an earlyReturn() call it waited for rejected.
C12_TerminalAfterClose ==
  /\ \A p \in Pulls : pullInfo[p].closed =>
       /\ pulls[p].st \in {"done", "finishing", "failed"}
       /\ pulls[p].st = "failed" =>
            \E i \in 1..Len(finishes) : finishes[i].pull = p /\ SomeRejected(i)
  /\ \A i \in RepeatedReturns :
       /\ finishes[i].st \in {"tick", "all", "done", "rejected"}
       /\ finishes[i].st = "rejected" => SomeRejected(i)

\* after a return() with nodes still in the root set, a later next() and a
\* repeated return() have resolved to done
C12_Witness ==
  /\ rootNodes # {}
  /\ \E p \in Pulls : pullInfo[p].closed /\ pulls[p].st = "done"
  /\ \E i \in RepeatedReturns : finishes[i].st = "done"

\* C13: after return() or throw() has been called or the signal has aborted,
\* no next() resolves to a payload.
C13_NoPayloadAfterAbort ==
  \A k \in 1..Len(out) : ~out[k].closed /\ ~out[k].aborted

\* C14 as claimed: a return() or throw() that has settled released every
\* next() that was suspended, called earlyReturn on every stream still
\* registered as cancellable, and none of these calls is still unsettled.
C14_WaitsForAll ==
  \A i \in Closes : SettledFinish(i) =>
    /\ \A p \in finishes[i].suspended : pulls[p].st \in {"released", "done", "aborted"}
    /\ \A str \in finishes[i].registry \cap cancellableStreams :
         \E j \in 1..Len(finishes[i].awaits) : finishes[i].awaits[j].stream = str
    /\ finishes[i].unsettled = 0

\* C14, amended: a return() or throw() that has settled released every next()
\* that was suspended and called earlyReturn on every stream still registered
\* as cancellable; it does not settle before one of these calls has rejected
\* or all of them are fulfilled.
C14_WaitsForAllOrOneRejection ==
  \A i \in Closes : SettledFinish(i) =>
    /\ \A p \in finishes[i].suspended : pulls[p].st \in {"released", "done", "aborted"}
    /\ \A str \in finishes[i].registry \cap cancellableStreams :
         \E j \in 1..Len(finishes[i].awaits) : finishes[i].awaits[j].stream = str
    /\ finishes[i].unsettled > 0 => finishes[i].st = "rejected"
    /\ finishes[i].st = "rejected" <=> SomeRejected(i)

\* a return() called with a next() suspended and two cancellable streams
\* registered has resolved to done
C14_Witness ==
  \E i \in Closes :
    /\ finishes[i].st = "done"
    /\ finishes[i].suspended # {}
    /\ Len(finishes[i].awaits) = 2

\* C15: when the signal has aborted and a next() has been released by it and
\* has settled, earlyReturn has been called on every stream still registered
\* as cancellable.
C15_SignalStopsStreams ==
  (signal = "aborted" /\ \E p \in Pulls : pulls[p].st = "aborted") =>
     \A str \in cancellableStreams : streams[str].earlyReturns > 0

\* C16: no next() made in state Started or Completed while the signal had
\* already aborted resolves to done.
C16_AbortReasonRaised ==
  \A p \in Pulls :
    (pullInfo[p].aborted /\ pullInfo[p].issued \in {Started, Completed}) => pulls[p].st # "done"

\* C17: outstanding next() calls are served in the order they were made: the
\* payloads come out in the order of the calls that yield them, and no
\* earlier call has resolved to done when a later call resolved to a payload.
C17_ServedInOrder ==
  /\ \A k1, k2 \in 1..Len(out) : k1 < k2 => out[k1].pull < out[k2].pull
  /\ \A p, q \in Pulls : (p < q /\ pulls[q].st = "yielded") => pulls[p].st # "done"

\* every unit of work has resolved and every continuation of a call already
\* made has run: nothing but a further call by the consumer can happen
Quiescent ==
  /\ phase = "running"
  /\ \A g \in Groups : ~(groups[g].created /\ groups[g].box = "pending")
  /\ \A str \in Streams : streams[str].loops = <<>>
  /\ resumes = <<>>
  /\ \A i \in 1..Len(finishes) : SettledFinish(i)

\* C18: no next() stays suspended forever: once every unit of work has
\* resolved and every continuation has run, no next() call is still unsettled.
C18_NoPullLeftSuspended ==
  Quiescent => Unsettled = {}

\* C19 as claimed: under every setting of the options the cursor of a stream
\* equals the number of items handled for it so far.
C19_CursorCountsItems ==
  \A str \in Streams : streams[str].index = streams[str].handled

\* C19, amended: when sendPathAndLabelOnIncremental is set the cursor of a
\* stream equals the number of items handled for it so far (every batch of k
\* items moves it on by k); when it is not set the cursor stays 0.
C19_CursorCountsItemsWithPaths ==
  \A str \in Streams :
    streams[str].index = IF sendPathAndLabelOnIncremental THEN streams[str].handled ELSE 0

\* with sendPathAndLabelOnIncremental set, a batch of 2 items and then a
\* batch of 1 item of the same stream have been yielded and the cursor is 3
C19_Witness ==
  /\ sendPathAndLabelOnIncremental
  /\ \E str \in Streams :
       /\ streams[str].index = 3
       /\ \E k1, k2 \in 1..Len(out) :
            /\ k1 < k2
            /\ \E e \in Range(out[k1].incremental) :
                 e.kind = "items" /\ e.src = str /\ Len(e.items) = 2
            /\ \E e \in Range(out[k2].incremental) :
                 e.kind = "items" /\ e.src = str /\ Len(e.items) = 1

\* the ids the stream has been announced under, in the initial result or in
\* a payload
AnnouncedIds(str) ==
  {e.id : e \in {e \in Range(initialResult.pending) : e.node = str}} \cup
  UNION {{e.id : e \in {e \in Range(out[k].pending) : e.node = str}} : k \in 1..Len(out)}
\* a payload that was yielded has a `completed` entry for the stream
StreamCompleted(str) ==
  \E k \in 1..Len(out) : \E e \in Range(out[k].completed) : e.id \in AnnouncedIds(str)
\* the call that handled the sentinel of the stream yielded the `completed`
\* entry, unless an invariant() ended that call
CompletedYielded(str) ==
  StreamCompleted(str) \/ \E p \in Pulls : pulls[p].st = "threw"

\* C20 as claimed: a stream whose sentinel has been handled, with or without
\* errors, has its `completed` entry and is out of the root set (unless it
\* has been promoted a second time), and if it is cancellable it is out of
\* the registry and earlyReturn has been called.
C20_EarlyReturnOnBothPaths ==
  \A str \in Streams : streams[str].ended # "no" =>
    /\ CompletedYielded(str)
    /\ str \in rootNodes => streams[str].started > 1
    /\ streams[str].cancellable =>
         str \notin cancellableStreams /\ streams[str].earlyReturns > 0

\* C20, amended: a stream whose sentinel has been handled, with or without
\* errors, has its `completed` entry and is out of the root set (unless it
\* has been promoted a second time), and if it is cancellable it is out of
\* the registry; earlyReturn has been called (once) if the sentinel carried
\* errors and not if the stream terminated.
C20_EarlyReturnOnFailure ==
  \A str \in Streams : streams[str].ended # "no" =>
    /\ CompletedYielded(str)
    /\ str \in rootNodes => streams[str].started > 1
    /\ str \notin cancellableStreams
    /\ streams[str].earlyReturns =
         IF streams[str].cancellable /\ streams[str].ended = "error" THEN 1 ELSE 0

\* a cancellable stream has failed after a batch of items: its `completed`
\* entry has been yielded and earlyReturn has been called
C20_Witness ==
  \E str \in Streams :
    /\ streams[str].cancellable
    /\ streams[str].ended = "error"
    /\ streams[str].handled > 0
    /\ streams[str].earlyReturns = 1
    /\ StreamCompleted(str)

\* the incremental entries with null items, and the completed entries, that
\* the payloads yielded so far carry for the stream
NullItemsEntries(str) ==
  Flat([k \in 1..Len(out) |->
          SelectSeq(out[k].incremental, LAMBDA e : e.kind = "nullItems" /\ e.src = str)])
StreamCompletedEntries(str) ==
  Flat([k \in 1..Len(out) |->
          SelectSeq(out[k].completed, LAMBDA e : e.id \in AnnouncedIds(str))])

\* C21: with sendIncrementalErrorsAsNull set, a failed execution group pushes
\* for every owner it removes from the root set an incremental entry {id,
\* data: null, errors} and a bare completed entry {id}, and a failed stream
\* is yielded as one incremental entry {id, items: null, errors} and one bare
\* completed entry {id}; with the option unset the failure gives one
\* completed entry {id, errors} per node and no incremental entry.
C21_ErrorsAsNullOrCompleted ==
  /\ \A i \in 1..Len(failLog) :
       LET e == failLog[i]
           ro == RootedOwners(e)
       IN /\ Len(e.completed) = Len(ro)
          /\ Len(e.incremental) = IF sendIncrementalErrorsAsNull THEN Len(ro) ELSE 0
          /\ \A k \in 1..Len(ro) :
               /\ e.completed[k] = [id |-> e.ids[ro[k]], errors |-> ~sendIncrementalErrorsAsNull]
               /\ sendIncrementalErrorsAsNull =>
                    /\ e.incremental[k].id = e.ids[ro[k]]
                    /\ e.incremental[k].kind = "null"
                    /\ e.incremental[k].errors
  /\ \A str \in Streams : (streams[str].ended = "error" /\ StreamCompleted(str)) =>
       /\ StreamCompletedEntries(str) =
            <<[id |-> streams[str].id, errors |-> ~sendIncrementalErrorsAsNull]>>
       /\ Len(NullItemsEntries(str)) = IF sendIncrementalErrorsAsNull THEN 1 ELSE 0
       /\ \A k \in 1..Len(NullItemsEntries(str)) :
            NullItemsEntries(str)[k].id = streams[str].id /\ NullItemsEntries(str)[k].errors

\* with sendIncrementalErrorsAsNull set, a failed group has removed two owners
\* from the root set and a failed stream has been yielded
C21_Witness ==
  /\ sendIncrementalErrorsAsNull
  /\ \E i \in 1..Len(failLog) : Len(failLog[i].incremental) = 2
  /\ \E str \in Streams : streams[str].ended = "error" /\ Len(NullItemsEntries(str)) = 1

\* the candidates of the call e of _promoteNonEmptyToRoot that are streams or
\* fragments with a pending execution group, in the order they were found
NonEmptyCandidates(e) ==
  SelectSeq(e.considered,
            LAMBDA x : x \in Streams \/ Len(e.pendingExecutionGroups[x]) > 0)

\* C22: every call of _promoteNonEmptyToRoot returns, in the order it came
\* upon them, exactly the stream candidates and the fragment candidates that
\* have a pending execution group, and these are in the root set afterwards;
\* a fragment candidate with none is not added to the root set and its
\* children are candidates in its place; only nodes a call returned are
\* ever announced.
C22_PromotesNonEmpty ==
  /\ \A i \in 1..Len(promoteLog) :
       LET e == promoteLog[i] IN
       /\ e.newPending = NonEmptyCandidates(e)
       /\ Range(e.newPending) \subseteq e.rootAfter
       /\ e.rootAfter = e.rootBefore \cup Range(e.newPending)
       /\ Range(e.given) \subseteq Range(e.considered)
       /\ \A x \in Range(e.considered) \cap Frags :
            Len(e.pendingExecutionGroups[x]) = 0 =>
              Range(e.children[x]) \subseteq Range(e.considered)
  /\ \A k \in 1..Len(Announced) :
       \E i \in 1..Len(promoteLog) : Announced[k].node \in Range(promoteLog[i].newPending)

\* a call of _promoteNonEmptyToRoot came upon a fragment without pending
\* execution groups, passed it over and promoted a child of it and a stream
C22_Witness ==
  \E i \in 1..Len(promoteLog) :
    LET e == promoteLog[i] IN
    /\ \E x \in Range(e.considered) \cap Frags :
         /\ Len(e.pendingExecutionGroups[x]) = 0
         /\ \E c \in Range(e.children[x]) : c \in Range(e.newPending)
    /\ \E str \in Streams : str \in Range(e.newPending)

\* C23: the activation callbacks registered on a deferred fragment are called
\* exactly once over its lifetime, at the moment it becomes active: no fragment
\* has had them called twice, they have been called exactly when the fragment
\* was made pending, and every fragment in the root set has had them called.
C23_CallbacksOnce ==
  \A f \in Frags :
    /\ fragments[f].fnsCalled <= 1
    /\ fragments[f].pending <=> fragments[f].fnsCalled = 1
    /\ f \in rootNodes => fragments[f].fnsCalled = 1

\* the nested fragment B was promoted when its parent A was flushed, and both
\* have had their callbacks called once.
C23_Witness ==
  /\ "B" \in rootNodes
  /\ "A" \notin rootNodes
  /\ fragments["A"].fnsCalled = 1
  /\ fragments["B"].fnsCalled = 1
  /\ \E i \in 1..Len(flushLog) : flushLog[i].fragment = "A"

\* the initial execution found one execution group, owned by the top-level
\* fragment A alone, and no stream; the group has failed
OneFailedFragment ==
  /\ phase = "running"
  /\ CreatedGroups = {"G1"}
  /\ CreatedStreams = {}
  /\ groups["G1"].deferredFragmentRecords = <<"A">>
  /\ groups["G1"].box = "failed"

\* C24: with one top-level fragment whose single execution group fails, under
\* the default options, the initial result announces the fragment under id
\* "0" with hasNext true; the first next() yields exactly one payload, with
\* the completed entry of id "0" carrying the errors, hasNext false and no
\* pending or incremental entries; no other payload is yielded, and every
\* later next() resolves to done.
C24_SingleFailedFragment ==
  OneFailedFragment =>
    /\ initialResult = [pending |-> <<[id |-> "0", path |-> FragPath("A"), node |-> "A"]>>,
                        hasNext |-> TRUE]
    /\ \A k \in 1..Len(out) :
         /\ k = 1
         /\ out[k].pull = 1
         /\ out[k].completed = <<[id |-> "0", errors |-> TRUE]>>
         /\ out[k].incremental = <<>>
         /\ out[k].pending = <<>>
         /\ ~out[k].hasNext
    /\ pulls[1].st \in {"idle", "waiting", "batch", "yielded"}
    /\ \A p \in Pulls : p > 1 =>
         pulls[p].st \in {"idle", "waiting", "released", "finishing", "done"}
    /\ Quiescent => \A p \in Pulls :
         pulls[p].st \in {"idle", IF p = 1 THEN "yielded" ELSE "done"}

\* the first next() has yielded the payload and the one after it has
\* resolved to done
C24_Witness ==
  /\ OneFailedFragment
  /\ Len(out) = 1
  /\ pulls[1].st = "yielded"
  /\ pulls[2].st = "done"

\* the call p has gone through a turn of its loop in this step
TurnOf(p) ==
  /\ pulls[p].st \in {"idle", "batch"}
  /\ pulls'[p].st \in {"waiting", "yielded"}

\* C25: every payload yielded holds at least one incremental or completed
\* entry; a call whose batch has produced neither waits for the next batch
\* and yields nothing, keeping the pending entries it has; and the payload a
\* call yields starts with the pending entries it had kept while it waited.
C25_YieldsOnlyEntries ==
  [][/\ \A k \in 1..Len(out') :
          Len(out'[k].incremental) > 0 \/ Len(out'[k].completed) > 0
     /\ \A p \in Pulls : TurnOf(p) =>
          IF pulls'[p].st = "waiting"
          THEN /\ out' = out
               /\ p \in Range(nextQueue')
               /\ contexts'[p].incremental = <<>>
               /\ contexts'[p].completed = <<>>
               /\ IsPrefix(contexts[p].pending, contexts'[p].pending)
          ELSE /\ Len(out') = Len(out) + 1
               /\ out'[Len(out')].pull = p
               /\ IsPrefix(contexts[p].pending, out'[Len(out')].pending)]_vars

\* a call was handed the result of a group whose fragment waits for another
\* group: it produced no entry and the call waits again, nothing yielded
C25_Witness ==
  /\ out = <<>>
  /\ completedQueue = <<>>
  /\ \E p \in Pulls : pulls[p].st = "waiting" /\ p \in Range(nextQueue)
  /\ \E g \in Groups, f \in Frags :
       /\ groups[g].box = "ok"
       /\ f \in rootNodes
       /\ g \in Range(fragments[f].successfulExecutionGroups)
       /\ fragments[f].pendingExecutionGroups # <<>>

\* C26: the result of an execution group is first awaited when the first of
\* its owners is in the root set: a group that is awaited has an owner whose
\* activation callbacks have run, and every group in the pending set of a
\* fragment of the root set is awaited.
C26_AwaitedWithFirstOwner ==
  /\ \A g \in Groups : groups[g].awaited >= 1 =>
       \E f \in groups[g].registered : fragments[f].fnsCalled >= 1
  /\ \A f \in rootNodes \cap Frags : \A g \in Range(fragments[f].pendingExecutionGroups) :
       groups[g].awaited >= 1

\* the fragments removed from the root set by a failed execution group
Removed ==
  {f \in Frags : \E i \in 1..Len(failLog) : f \in failLog[i].rootBefore \ failLog[i].rootAfter}
\* the fragments nested below f
Descendants(f) == {d \in Frags : f \in Ancestors(d)}
\* the streams registered as children of f or of a fragment nested below f
StreamChildren(f) ==
  UNION {Range(fragments[d].children) \cap Streams : d \in {f} \cup Descendants(f)}
\* the removed fragments and the fragments nested below them
RemovedSubtrees == Removed \cup UNION {Descendants(f) : f \in Removed}
\* a node that has never been promoted: not in the root set, without an id,
\* its callbacks not called or its item loop not started
NeverPromoted(x) ==
  /\ x \notin rootNodes
  /\ IF x \in Frags
     THEN fragments[x].id = NoId /\ fragments[x].fnsCalled = 0
     ELSE streams[x].id = NoId /\ streams[x].started = 0
\* no entry of a payload carries the id of a node that has none
NoEntryWithoutId ==
  \A k \in 1..Len(out) :
    /\ \A j \in 1..Len(out[k].pending) : out[k].pending[j].id # NoId
    /\ \A j \in 1..Len(out[k].incremental) : out[k].incremental[j].id # NoId
    /\ \A j \in 1..Len(out[k].completed) : out[k].completed[j].id # NoId

\* C27 as claimed: once a fragment has been removed by a failure, no stream
\* registered as its child (or as a child of a fragment nested below it) is
\* promoted any more, and no fragment nested below it is ever promoted.
C27_ChildrenOfRemovedStay ==
  [][\A f \in Removed :
       /\ \A d \in Descendants(f) : d \notin rootNodes' /\ fragments'[d].fnsCalled = 0
       /\ \A str \in StreamChildren(f)' :
            /\ streams'[str].started = streams[str].started
            /\ str \in rootNodes' => str \in rootNodes]_vars

\* C27 amended: a fragment nested below a removed fragment, and a stream
\* whose parents all are removed fragments or nested below removed fragments,
\* has never been promoted: it is not in the root set (so it does not keep
\* hasNext true), it has no id, and no entry of any payload names it.
C27_RemovedSubtreeStays ==
  /\ NoEntryWithoutId
  /\ \A f \in Removed :
       /\ \A d \in Descendants(f) : NeverPromoted(d)
       /\ \A str \in StreamChildren(f) :
            (\A h \in Frags : str \in Range(fragments[h].children) => h \in RemovedSubtrees)
              => NeverPromoted(str)

\* A was removed by a failure while the fragment D nested below it still
\* waits for an execution group; the last payload has hasNext false
C27_Witness ==
  /\ "A" \in Removed
  /\ fragments["D"].pendingExecutionGroups # <<>>
  /\ rootNodes = {}
  /\ Len(out) > 0
  /\ ~out[Len(out)].hasNext

\* the items of the batches among the results, one after the other
RECURSIVE BatchItems(_)
BatchItems(results) ==
  IF results = <<>> THEN <<>>
  ELSE (IF Head(results).kind = "items" THEN Head(results).items ELSE <<>>)
         \o BatchItems(Tail(results))
\* the items of the queue the executor made, in queue order
GivenItems(str) ==
  [i \in 1..Len(SelectSeq(streams[str].given, LAMBDA r : r.kind = "item")) |->
     streams[str].given[i].item]
\* the terminal result is among the results passed to _enqueue
TerminalEnqueued(str) ==
  \E k \in 1..Len(streams[str].enqueued) : streams[str].enqueued[k].kind # "items"
\* the item loop of the stream has nothing left to do
LoopOver(str) ==
  /\ streams[str].started > 0
  /\ streams[str].streamItemQueue = <<>>
  /\ streams[str].loops = <<>>

\* C28: for every stream, the items of the batches enqueued so far are the
\* first items of its queue, in queue order and each once; no batch is
\* empty; the terminal result is enqueued once, after every batch, and when
\* the loop is over it has been enqueued with all the items before it; an
\* item that was available when the loop came to it is in the batch of the
\* item before it; and while the loop waits for an item or for the sentinel,
\* every item before it has been enqueued.
C28_BatchesKeepQueueOrder ==
  \A str \in Streams : streams[str].created =>
    LET q == streams[str].enqueued
        all == BatchItems(q)
    IN /\ IsPrefix(all, GivenItems(str))
       /\ \A k \in 1..Len(q) :
            /\ q[k].kind = "items" => q[k].items # <<>>
            /\ q[k].kind # "items" => k = Len(q) /\ all = GivenItems(str)
       /\ LoopOver(str) => TerminalEnqueued(str)
       /\ \A k \in 1..Len(q) : q[k].kind = "items" =>
            /\ streams[str].given[q[k].items[1]].async \/ q[k].items[1] = 1
            /\ \A j \in 2..Len(q[k].items) : ~streams[str].given[q[k].items[j]].async
       /\ \A i \in 1..Len(streams[str].loops) :
            Len(all) = IF streams[str].loops[i].kind = "item"
                       THEN streams[str].loops[i].item - 1
                       ELSE Len(GivenItems(str))

\* C29: once a completed entry has been emitted for an id, no later
\* incremental entry carries that id: no payload has an incremental entry
\* with an id that a payload before it has completed, and every incremental
\* entry of a flush carries the id of a fragment that was in the root set
\* when the flush began (one whose completed entry was not yet emitted).
C29_NoEntryAfterCompleted ==
  /\ \A k \in 1..Len(out) : \A j \in 1..Len(out[k].completed) :
       \A k2 \in (k + 1)..Len(out) : \A i \in 1..Len(out[k2].incremental) :
         out[k2].incremental[i].id # out[k].completed[j].id
  /\ \A n \in 1..Len(flushLog) :
       LET e == flushLog[n] IN
       \A k \in 1..Len(e.incremental) :
         \E f \in e.rootBefore \cap Frags : e.ids[f] = e.incremental[k].id

\* C30: recording a successfully completed execution group never trips the
\* assertion `deliveryGroups !== undefined`: it has failed for no fragment.
C30_RecordingNeverAsserts ==
  \A f \in Frags : ~fragments[f].refused

\* C31: each execution group is awaited at most once: _onExecutionGroup has
\* been called at most once for every group.
C31_AwaitedOnce ==
  \A g \in Groups : groups[g].awaited <= 1

\* the data of the group g is in an incremental entry of a payload
DataEmitted(g) ==
  \E k \in 1..Len(out) : \E i \in 1..Len(out[k].incremental) :
    out[k].incremental[i].kind = "data" /\ out[k].incremental[i].src = g
\* an owner of g that was promoted (its ancestors flushed or empty) and has
\* not been removed by a failure
SurvivingOwner(g) ==
  \E f \in Range(groups[g].deferredFragmentRecords) :
    f \notin Removed /\ fragments[f].fnsCalled >= 1

\* C32: a successfully completed execution group is not dropped: once every
\* unit has resolved, every continuation has run and the completed queue has
\* been drained, the data of every successful group with an owner that was
\* promoted and never removed by a failure has been emitted.
C32_SuccessNotDropped ==
  (Quiescent /\ completedQueue = <<>>) =>
    \A g \in Groups :
      (groups[g].created /\ groups[g].box = "ok" /\ SurvivingOwner(g)) => DataEmitted(g)

\* the next() calls that hold a batch they have not handled yet
HoldingBatch == {p \in Pulls : pulls[p].st = "batch"}

C34_OnEndAtMostOnce ==
  /\ mapped.onEndCalls <= 1
  /\ \A c \in 1..Len(mapped.calls) :
       mapped.calls[c].op = "return" => mapped.calls[c].onEnds <= 1

====
